---- MODULE Spec2Model ----
(***************************************************************************)
(* Model of the live ingest pipeline of trading-core:                      *)
(*   service/market_data.rs  MarketDataService (collection and processing  *)
(*                           tasks, batch flush with retry, stop())        *)
(*   exchange/binance.rs     BinanceExchange::subscribe_trades (the venue  *)
(*                           reader and its reconnect loop)                *)
(*   data/repository.rs      TickDataRepository::batch_insert              *)
(*   main.rs                 run_live_application (the outer runner)       *)
(* Every task is a little state machine; a step of the model is the code   *)
(* between two suspension points (an .await) of one task, or one event of  *)
(* the environment (a WebSocket frame, the outcome of a connect or of a    *)
(* database call, a call of stop(), one second of time).                   *)
(***************************************************************************)
EXTENDS Integers, Sequences, FiniteSets, TLC

\* ----------------------------------------------------------------- bounds

\* Ticks the venue emits in one behaviour.
MaxTicks == 2
\* Calls of stop() in one behaviour.
MaxStops == 1
\* BatchConfig.max_batch_size (the default is 100).
max_batch_size == 2
\* Largest BatchConfig.max_retry_attempts tried (the default is 3).
MaxRetryAttempts == 2
\* BatchConfig.max_batch_time in seconds (the default is 1).
max_batch_time == 1
\* Capacity of the tick channel, mpsc::channel(1000), scaled down so that a
\* full channel is reached with MaxTicks ticks.
TickChannelCapacity == 1
\* Ring capacity of the memory tier of the cache, per symbol.
max_ticks_per_symbol == 1

\* binance.rs: const MAX_RECONNECT_ATTEMPTS: u32 = 10, scaled down.
MAX_RECONNECT_ATTEMPTS == 2

\* ------------------------------------------------------ program constants

\* main.rs: tokio::time::timeout(Duration::from_secs(30), service_handle)
RUNNER_TIMEOUT_SECS == 30

Symbols == {"BTCUSDT", "ETHUSDT"}

\* A tick: id is the position of its callback among the callbacks of the
\* venue adapter (1 is the first print delivered), sym its symbol.
Ticks == [id : 1..MaxTicks, sym : Symbols]

NoTick == [id |-> 0, sym |-> "none"]

\* The result of a call: ok or the kind of the error, the row count of
\* batch_insert, the ticks of get_ticks, the price of get_latest_price
\* (<<>> is None).
Result(ok, err, rows, ticks, price) ==
    [ok |-> ok, err |-> err, rows |-> rows, ticks |-> ticks, price |-> price]

Ok == Result(TRUE, "", 0, <<>>, <<>>)

Err(kind) == Result(FALSE, kind, 0, <<>>, <<>>)

\* No call of the repository's API was made yet.
NoCall == [op |-> "none", arg |-> <<>>, res |-> Ok, repeat |-> FALSE]

\* BinanceTradeMessage with nothing in it.
NoMsg == [s |-> "", t |-> 0, p |-> "", q |-> "", T |-> 0, m |-> FALSE]

\* A frame read from the WebSocket. For a text frame: json says that the text
\* is JSON, stream that it deserializes as BinanceStreamMessage (a "stream"
\* and a "data" with every field of a trade), trade that it deserializes as
\* BinanceTradeMessage, ctl that it has a "result" or an "id" key; msg is the
\* trade it carries, if any.
Frame(kind, json, stream, trade, ctl, msg) ==
    [kind |-> kind, json |-> json, stream |-> stream, trade |-> trade,
     ctl |-> ctl, msg |-> msg]

\* A frame that is not text (Ping, Pong, Close), a read error, the end of the
\* stream.
OtherFrame(kind) == Frame(kind, FALSE, FALSE, FALSE, FALSE, NoMsg)

NoFrame == OtherFrame("none")

\* No WebSocket is open, nothing was read or fetched.
NoFeed ==
    [conn |-> "none", reads |-> 0, frame |-> NoFrame, delivered |-> <<>>, dropped |-> 0,
     fetched |-> [ok |-> TRUE, ticks |-> <<>>]]

VARIABLES
    cfg,                \* BatchConfig: max_batch_size, max_retry_attempts
    stops,              \* calls of stop() so far
    rxColl,             \* signals queued in the collection task's shutdown_rx
    rxSub,              \* ... in handle_websocket_connection's shutdown_rx
    rxConn,             \* ... in connect_and_subscribe's shutdown_rx
    rxProc,             \* ... in the processing task's shutdown_rx
    cPc,                \* collection task
    vPc,                \* venue reader (inside subscribe_trades)
    reconnect_attempts, \* handle_websocket_connection's counter
    emitted,            \* callbacks invoked so far
    sends,              \* ticks held by spawned send tasks
    tick_channel,       \* contents of the mpsc channel
    pPc,                \* processing task
    cur,                \* the tick the processing task holds between recv and push
    batch_buffer,
    attempt,            \* flush_batch_with_retry's attempt
    flushFrom,          \* which select branch called the flush
    stats,              \* BatchStats
    store,              \* rows of tick_data
    cache,              \* memory tier: symbol -> ring of ticks, oldest first
    elapsed,            \* last_flush.elapsed() in seconds, saturating at max_batch_time
    timerLag,           \* now - next deadline of flush_timer, saturating at 0
    appended,           \* history: every tick pushed to batch_buffer, in order
    flushCalls,         \* history: batch_insert calls of the current (last) flush
    flushLog,           \* history: the flushes that returned and the
                        \* batch_insert calls that failed, with the ticks of
                        \* the batches written and of the batches discarded
    runner,             \* run_live_application
    runnerElapsed,      \* seconds since the runner started its timeout
    call,               \* the last call of the repository's API and its result
    feed,               \* the venue adapter reading frames: connection, last
                        \* frame, ticks handed to the callback
    accepted,           \* history: the ticks an insert of the repository's API
                        \* has written or skipped as duplicates
    memory_config,      \* the cache's memory tier as configured at
                        \* construction: max_ticks_per_symbol
    engine,             \* BacktestEngine::run: its position in the loop over
                        \* data, the signal of the tick, the report
    portfolio,          \* the engine's Portfolio
    strategy,           \* the engine's Strategy and its state
    startup,            \* the construction of the cache when the application
                        \* starts: mode, settings, the remote tier's
                        \* reachability, the outcome
    pushes              \* history: the ticks pushed to the cache one at a
                        \* time by the inserts of distinct ticks, in order

shutdownVars == <<stops, rxColl, rxSub, rxConn, rxProc>>
venueVars == <<vPc, reconnect_attempts, emitted>>
procVars == <<pPc, cur, batch_buffer, attempt, flushFrom, stats>>
repoVars == <<store, cache>>
clockVars == <<elapsed, timerLag>>
histVars == <<appended, flushCalls, flushLog>>
runnerVars == <<runner, runnerElapsed>>
backtestVars == <<engine, portfolio, strategy>>
apiVars == <<call, feed, accepted, memory_config, backtestVars, startup, pushes>>
pipelineVars == <<cfg, shutdownVars, cPc, venueVars, sends, tick_channel, procVars,
                  clockVars, histVars, runnerVars>>

vars == <<cfg, stops, rxColl, rxSub, rxConn, rxProc, cPc, vPc, reconnect_attempts,
          emitted, sends, tick_channel, pPc, cur, batch_buffer, attempt, flushFrom,
          stats, store, cache, elapsed, timerLag, appended, flushCalls, flushLog,
          runner,
          runnerElapsed, call, feed, accepted, memory_config, engine, portfolio,
          strategy, startup, pushes>>

\* ---------------------------------------------------------------- helpers

Min(a, b) == IF a < b THEN a ELSE b

Max(a, b) == IF a > b THEN a ELSE b

SeqToSet(s) == {s[i] : i \in 1..Len(s)}

\* The elements of s that satisfy the symbol, in the order of s.
RECURSIVE OfSymbol(_, _)
OfSymbol(s, sym) ==
    IF s = <<>> THEN <<>>
    ELSE IF Head(s).sym = sym THEN <<Head(s)>> \o OfSymbol(Tail(s), sym)
    ELSE OfSymbol(Tail(s), sym)

\* The last n elements of s (all of s when it has fewer).
LastN(s, n) == SubSeq(s, Len(s) - Min(n, Len(s)) + 1, Len(s))

BatchConfigs ==
    [max_batch_size : {max_batch_size}, max_retry_attempts : 0..MaxRetryAttempts]

BatchStatsDefault ==
    [total_ticks_processed |-> 0, total_batches_flushed |-> 0,
     total_retry_attempts |-> 0, total_failed_batches |-> 0,
     cache_update_failures |-> 0]

\* ------------------------------------------------------------------ cache

\* A variant of push_tick: a full ring keeps what it holds and drops the
\* tick pushed.
push_tick_keep_oldest(c, t) ==
    IF Len(c[t.sym]) >= memory_config.max_ticks_per_symbol THEN c
    ELSE [c EXCEPT ![t.sym] = Append(c[t.sym], t)]

\* TieredCache::push_tick, memory tier: append, and drop the oldest tick of
\* the symbol when the ring is over its capacity.
push_tick(c, t) ==
    LET s == Append(c[t.sym], t)
    IN [c EXCEPT ![t.sym] = IF Len(s) > memory_config.max_ticks_per_symbol
                            THEN Tail(s) ELSE s]

RECURSIVE PushAll(_, _)
PushAll(c, ticks) ==
    IF ticks = <<>> THEN c ELSE PushAll(push_tick(c, Head(ticks)), Tail(ticks))

\* ------------------------------------------------------------------- init

\* MarketDataService::start has created the channel and spawned both tasks.
\* Signal::Hold
Hold == [kind |-> "Hold", symbol |-> "", quantity |-> 0]

\* No backtest is run: no engine, portfolio or strategy was constructed.
NoBacktest ==
    /\ engine = [pc |-> "none", data |-> <<>>, processed |-> 0, signal |-> Hold,
                 failed |-> 0, report |-> <<>>]
    /\ portfolio = [initial_capital |-> 0, cash |-> 0, positions |-> <<>>,
                    last_price |-> <<>>, trades |-> <<>>, equity_curve |-> <<>>]
    /\ strategy = [kind |-> "none", symbol |-> "", short_period |-> 0,
                   long_period |-> 0, short_ma |-> <<>>, long_ma |-> <<>>,
                   position_size |-> 0]

\* No application start is followed.
NoStartup ==
    [pc |-> "none", mode |-> "none", redis_url |-> "",
     settings |-> [memory |-> <<0, 0>>, redis |-> <<0, 0>>],
     reachable |-> {}, connects |-> FALSE, cache |-> <<>>]

\* No flush was made yet.
NoFlush == [flushed_ticks |-> 0, discarded_ticks |-> 0, completed |-> 0,
            failed_calls |-> 0]

InitService ==
    /\ cfg \in BatchConfigs
    /\ stops = 0
    /\ rxColl = 0 /\ rxSub = 0 /\ rxConn = 0 /\ rxProc = 0
    /\ cPc = "check"
    /\ vPc = "idle"
    /\ reconnect_attempts = 0
    /\ emitted = 0
    /\ sends = {}
    /\ tick_channel = <<>>
    /\ pPc = "select"
    /\ cur = NoTick
    /\ batch_buffer = <<>>
    /\ attempt = 0
    /\ flushFrom = "none"
    /\ stats = BatchStatsDefault
    /\ store = {}
    /\ cache = [s \in Symbols |-> <<>>]
    /\ elapsed = 0
    /\ timerLag = 0
    /\ appended = <<>>
    /\ flushCalls = 0
    /\ flushLog = NoFlush
    /\ call = NoCall
    /\ feed = NoFeed
    /\ accepted = {}

\* The service used as a library: no outer runner.
Init ==
    /\ InitService
    /\ memory_config = [max_ticks_per_symbol |-> max_ticks_per_symbol]
    /\ NoBacktest
    /\ startup = NoStartup
    /\ pushes = <<>>
    /\ runner = "none"
    /\ runnerElapsed = 0

\* run_live_application has spawned service.start() and awaits it under its
\* timeout.
InitLive ==
    /\ InitService
    /\ memory_config = [max_ticks_per_symbol |-> max_ticks_per_symbol]
    /\ NoBacktest
    /\ startup = NoStartup
    /\ pushes = <<>>
    /\ runner = "waiting"
    /\ runnerElapsed = 0

\* --------------------------------------------------------------- shutdown

\* The receivers that exist: a broadcast value is queued in each of them, and
\* in none that is created (subscribe, resubscribe) after the send.
InSubscribeTrades == vPc \in {"loop_top", "resubscribe", "connecting", "connected",
                              "reconnect_delay"}

InConnectAndSubscribe == vPc \in {"connecting", "connected"}

\* MarketDataService::stop: let _ = self.shutdown_tx.send(())
Stop ==
    /\ stops < MaxStops
    /\ stops' = stops + 1
    /\ rxColl' = IF cPc # "done" THEN rxColl + 1 ELSE rxColl
    /\ rxSub' = IF InSubscribeTrades THEN rxSub + 1 ELSE rxSub
    /\ rxConn' = IF InConnectAndSubscribe THEN rxConn + 1 ELSE rxConn
    /\ rxProc' = IF pPc # "done" THEN rxProc + 1 ELSE rxProc
    /\ UNCHANGED <<cfg, cPc, venueVars, sends, tick_channel, procVars, repoVars,
                   clockVars, histVars, runnerVars, apiVars>>

\* -------------------------------------------------------- collection task

\* Top of the collection loop: if shutdown_rx.try_recv().is_ok() { break }
CollCheckShutdown ==
    /\ cPc = "check"
    /\ IF rxColl > 0
       THEN cPc' = "done" /\ rxColl' = 0
       ELSE cPc' = "subscribe" /\ rxColl' = rxColl
    /\ UNCHANGED <<cfg, stops, rxSub, rxConn, rxProc, venueVars, sends, tick_channel,
                   procVars, repoVars, clockVars, histVars, runnerVars, apiVars>>

\* exchange.subscribe_trades(&symbols, callback, shutdown_rx.resubscribe()) and,
\* inside it, handle_websocket_connection(.., shutdown_rx.resubscribe()): the
\* receiver the reconnect loop reads is created here, empty.
CollSubscribe ==
    /\ cPc = "subscribe"
    /\ cPc' = "awaiting"
    /\ vPc' = "loop_top"
    /\ reconnect_attempts' = 0
    /\ rxSub' = 0
    /\ UNCHANGED <<cfg, stops, rxColl, rxConn, rxProc, emitted, sends, tick_channel,
                   procVars, repoVars, clockVars, histVars, runnerVars, apiVars>>

\* subscribe_trades returned Ok(()): break
CollSubscribeOk ==
    /\ cPc = "awaiting" /\ vPc = "ret_ok"
    /\ cPc' = "done"
    /\ vPc' = "idle"
    /\ rxColl' = 0 /\ rxSub' = 0
    /\ UNCHANGED <<cfg, stops, rxConn, rxProc, reconnect_attempts, emitted, sends,
                   tick_channel, procVars, repoVars, clockVars, histVars, runnerVars, apiVars>>

\* subscribe_trades returned Err: try_recv, then the 5 s retry delay
CollSubscribeErr ==
    /\ cPc = "awaiting" /\ vPc = "ret_err"
    /\ vPc' = "idle"
    /\ rxSub' = 0
    /\ IF rxColl > 0
       THEN cPc' = "done" /\ rxColl' = 0
       ELSE cPc' = "retry_delay" /\ rxColl' = rxColl
    /\ UNCHANGED <<cfg, stops, rxConn, rxProc, reconnect_attempts, emitted, sends,
                   tick_channel, procVars, repoVars, clockVars, histVars, runnerVars, apiVars>>

\* select! { _ = sleep(5 s) => continue, .. }
CollRetryWake ==
    /\ cPc = "retry_delay"
    /\ cPc' = "check"
    /\ UNCHANGED <<cfg, shutdownVars, venueVars, sends, tick_channel, procVars,
                   repoVars, clockVars, histVars, runnerVars, apiVars>>

\* select! { .., _ = shutdown_rx.recv() => break }
CollRetryShutdown ==
    /\ cPc = "retry_delay"
    /\ rxColl > 0
    /\ cPc' = "done"
    /\ rxColl' = 0
    /\ UNCHANGED <<cfg, stops, rxSub, rxConn, rxProc, venueVars, sends, tick_channel,
                   procVars, repoVars, clockVars, histVars, runnerVars, apiVars>>

\* ----------------------------------------------------------- venue reader

\* Top of the reconnect loop: if shutdown_rx.try_recv().is_ok() { return Ok(()) }
VenueCheckShutdown ==
    /\ vPc = "loop_top"
    /\ IF rxSub > 0
       THEN vPc' = "ret_ok" /\ rxSub' = 0
       ELSE vPc' = "resubscribe" /\ rxSub' = rxSub
    /\ UNCHANGED <<cfg, stops, rxColl, rxConn, rxProc, cPc, reconnect_attempts,
                   emitted, sends, tick_channel, procVars, repoVars, clockVars,
                   histVars, runnerVars, apiVars>>

\* connect_and_subscribe(&streams, &callback, shutdown_rx.resubscribe()): the
\* receiver of the message loop is created here, empty; connect_async starts.
VenueConnect ==
    /\ vPc = "resubscribe"
    /\ vPc' = "connecting"
    /\ rxConn' = 0
    /\ UNCHANGED <<cfg, stops, rxColl, rxSub, rxProc, cPc, reconnect_attempts,
                   emitted, sends, tick_channel, procVars, repoVars, clockVars,
                   histVars, runnerVars, apiVars>>

\* connect_async and the subscription message succeeded
VenueConnected ==
    /\ vPc = "connecting"
    /\ vPc' = "connected"
    /\ UNCHANGED <<cfg, shutdownVars, cPc, reconnect_attempts, emitted, sends,
                   tick_channel, procVars, repoVars, clockVars, histVars, runnerVars, apiVars>>

\* connect_and_subscribe returned Err: count the attempt, give up at the cap
OnConnectionError ==
    /\ reconnect_attempts' = reconnect_attempts + 1
    /\ vPc' = IF reconnect_attempts + 1 >= MAX_RECONNECT_ATTEMPTS
              THEN "ret_err" ELSE "reconnect_delay"
    /\ rxConn' = 0
    /\ UNCHANGED <<cfg, stops, rxColl, rxSub, rxProc, cPc, emitted, sends,
                   tick_channel, procVars, repoVars, clockVars, histVars, runnerVars, apiVars>>

\* connect_async, or sending the subscription, failed
VenueConnectFailed ==
    /\ vPc = "connecting"
    /\ OnConnectionError

\* read.next() gave Some(Err(e)), or the Pong could not be written
VenueReadError ==
    /\ vPc = "connected"
    /\ OnConnectionError

\* A variant of Callback that awaits the send itself instead of spawning it.
CallbackAwaitsSend(t) ==
    /\ Len(tick_channel) < TickChannelCapacity
    /\ tick_channel' = Append(tick_channel, t)
    /\ UNCHANGED sends

\* The callback of start_data_collection: spawn(async move { tx.send(tick).await })
Callback(t) ==
    /\ sends' = sends \cup {t}
    /\ UNCHANGED tick_channel

\* A text frame that parses as a trade: callback(tick_data)
VenueTrade ==
    /\ vPc = "connected"
    /\ emitted < MaxTicks
    /\ \E sym \in Symbols : Callback([id |-> emitted + 1, sym |-> sym])
    /\ emitted' = emitted + 1
    /\ UNCHANGED <<cfg, shutdownVars, cPc, vPc, reconnect_attempts, procVars,
                   repoVars, clockVars, histVars, runnerVars, apiVars>>

\* connect_and_subscribe returned Ok(()): reconnect_attempts = 0; return Ok(())
OnConnectionEnded ==
    /\ reconnect_attempts' = 0
    /\ vPc' = "ret_ok"
    /\ rxConn' = 0
    /\ UNCHANGED <<cfg, stops, rxColl, rxSub, rxProc, cPc, emitted, sends,
                   tick_channel, procVars, repoVars, clockVars, histVars, runnerVars, apiVars>>

\* A Close frame, or the end of the stream: break
VenueClosed ==
    /\ vPc = "connected"
    /\ OnConnectionEnded

\* _ = shutdown_rx.recv() in the message loop: send Close, break
VenueShutdown ==
    /\ vPc = "connected"
    /\ rxConn > 0
    /\ OnConnectionEnded

\* select! { _ = sleep(RECONNECT_DELAY) => continue, .. }
VenueReconnectWake ==
    /\ vPc = "reconnect_delay"
    /\ vPc' = "loop_top"
    /\ UNCHANGED <<cfg, shutdownVars, cPc, reconnect_attempts, emitted, sends,
                   tick_channel, procVars, repoVars, clockVars, histVars, runnerVars, apiVars>>

\* select! { .., _ = shutdown_rx.recv() => return Ok(()) }
VenueReconnectShutdown ==
    /\ vPc = "reconnect_delay"
    /\ rxSub > 0
    /\ vPc' = "ret_ok"
    /\ rxSub' = 0
    /\ UNCHANGED <<cfg, stops, rxColl, rxConn, rxProc, cPc, reconnect_attempts,
                   emitted, sends, tick_channel, procVars, repoVars, clockVars,
                   histVars, runnerVars, apiVars>>

\* ------------------------------------------------------- spawned senders

\* mpsc::Sender::send completes when the channel has a free slot
HasCapacity(ch) == Len(ch) < TickChannelCapacity

\* A spawned task's tx.send(tick).await completes. The spawned tasks are
\* scheduled in any order.
SendTick ==
    /\ pPc # "done"
    /\ HasCapacity(tick_channel)
    /\ \E t \in sends :
        /\ tick_channel' = Append(tick_channel, t)
        /\ sends' = sends \ {t}
    /\ UNCHANGED <<cfg, shutdownVars, cPc, venueVars, procVars, repoVars, clockVars,
                   histVars, runnerVars, apiVars>>

\* tx.send(tick).await fails: the receiver was dropped with the processing task
SendFails ==
    /\ pPc = "done"
    /\ \E t \in sends : sends' = sends \ {t}
    /\ UNCHANGED <<cfg, shutdownVars, cPc, venueVars, tick_channel, procVars,
                   repoVars, clockVars, histVars, runnerVars, apiVars>>

\* Every Sender is dropped: tick_tx with the collection task, its clones with
\* the callback and with the spawned tasks.
ChannelClosed == cPc = "done" /\ sends = {}

\* -------------------------------------------------------- processing task

\* A variant of update_cache_async in which the cache is not written on receipt.
update_cache_skipped(c, t) == c

\* update_cache_async: repository.get_cache().push_tick(tick)
update_cache_async(c, t) == push_tick(c, t)

\* A variant of BufferFull with > for >=.
BufferOverFull(buf, c) == Len(buf) > c.max_batch_size

\* if batch_buffer.len() >= batch_config.max_batch_size
BufferFull(buf, c) == Len(buf) >= c.max_batch_size

\* A variant of TimerShouldFlush in which the age of the last flush is not looked at.
TimerFlushesNonEmpty(buf, el) == buf # <<>>

\* if !batch_buffer.is_empty() && last_flush.elapsed() >= max_batch_time
TimerShouldFlush(buf, el) == buf # <<>> /\ el >= max_batch_time

\* A variant of RetriesExhausted with > for >=, one attempt too many.
RetriesOverExhausted(att, c) == att > c.max_retry_attempts

\* if attempt >= config.max_retry_attempts
RetriesExhausted(att, c) == att >= c.max_retry_attempts

\* Entry of flush_batch_with_retry from one of the select branches
StartFlush(from) ==
    /\ pPc' = "flush"
    /\ flushFrom' = from
    /\ attempt' = 0
    /\ flushCalls' = 0

\* tick_rx.recv() gave Some(tick): update the cache
ProcRecvTick ==
    /\ pPc = "select"
    /\ tick_channel # <<>>
    /\ cur' = Head(tick_channel)
    /\ tick_channel' = Tail(tick_channel)
    /\ cache' = update_cache_async(cache, Head(tick_channel))
    /\ pPc' = "push"
    /\ UNCHANGED <<cfg, shutdownVars, cPc, venueVars, sends, batch_buffer, attempt,
                   flushFrom, stats, store, clockVars, histVars, runnerVars, apiVars>>

\* batch_buffer.push(tick); total_ticks_processed += 1; flush when full
ProcPush ==
    /\ pPc = "push"
    /\ batch_buffer' = Append(batch_buffer, cur)
    /\ appended' = Append(appended, cur)
    /\ cur' = NoTick
    /\ stats' = [stats EXCEPT !.total_ticks_processed = @ + 1]
    /\ IF BufferFull(Append(batch_buffer, cur), cfg)
       THEN StartFlush("tick")
       ELSE pPc' = "select" /\ UNCHANGED <<attempt, flushFrom, flushCalls>>
    /\ UNCHANGED <<cfg, shutdownVars, cPc, venueVars, sends, tick_channel, repoVars,
                   clockVars, flushLog, runnerVars, apiVars>>

\* tick_rx.recv() gave None: warn!("Tick data channel closed"); break
ProcChannelClosed ==
    /\ pPc = "select"
    /\ tick_channel = <<>>
    /\ ChannelClosed
    /\ pPc' = "done"
    /\ rxProc' = 0
    /\ UNCHANGED <<cfg, stops, rxColl, rxSub, rxConn, cPc, venueVars, sends,
                   tick_channel, cur, batch_buffer, attempt, flushFrom, stats,
                   repoVars, clockVars, histVars, runnerVars, apiVars>>

\* flush_timer.tick(): the next deadline is one period after the last one
ProcTimer ==
    /\ pPc = "select"
    /\ timerLag >= 0
    /\ timerLag' = timerLag - max_batch_time
    /\ IF TimerShouldFlush(batch_buffer, elapsed)
       THEN StartFlush("timer")
       ELSE UNCHANGED <<pPc, attempt, flushFrom, flushCalls>>
    /\ UNCHANGED <<cfg, shutdownVars, cPc, venueVars, sends, tick_channel, cur,
                   batch_buffer, stats, repoVars, elapsed, appended, flushLog,
                   runnerVars, apiVars>>

\* shutdown_rx.recv(): flush what is left, break
ProcShutdown ==
    /\ pPc = "select"
    /\ rxProc > 0
    /\ rxProc' = 0
    /\ IF batch_buffer # <<>>
       THEN StartFlush("shutdown")
       ELSE pPc' = "done" /\ UNCHANGED <<attempt, flushFrom, flushCalls>>
    /\ UNCHANGED <<cfg, stops, rxColl, rxSub, rxConn, cPc, venueVars, sends,
                   tick_channel, cur, batch_buffer, stats, repoVars, clockVars,
                   appended, flushLog, runnerVars, apiVars>>

\* flush_batch_with_retry returns to its caller: the tick and timer branches
\* set last_flush = Instant::now() and loop, the shutdown branch breaks.
FlushReturns ==
    /\ pPc' = IF flushFrom = "shutdown" THEN "done" ELSE "select"
    /\ elapsed' = IF flushFrom = "shutdown" THEN elapsed ELSE 0
    /\ flushFrom' = "none"
    /\ batch_buffer' = <<>>

\* TickDataRepository::batch_insert of one chunk: the rows that are new are
\* inserted (ON CONFLICT DO NOTHING), then every tick is pushed to the cache.
batch_insert_store(st, ticks) == st \cup SeqToSet(ticks)

batch_insert_cache(c, ticks) == PushAll(c, ticks)

\* repository.batch_insert(batch_buffer.clone()) returned Ok
FlushInsertOk ==
    /\ pPc = "flush"
    /\ flushCalls' = flushCalls + 1
    /\ store' = batch_insert_store(store, batch_buffer)
    /\ cache' = batch_insert_cache(cache, batch_buffer)
    /\ stats' = [stats EXCEPT !.total_batches_flushed = @ + 1]
    /\ flushLog' = [flushLog EXCEPT !.flushed_ticks = @ + Len(batch_buffer),
                                    !.completed = @ + 1]
    /\ FlushReturns
    /\ UNCHANGED <<cfg, shutdownVars, cPc, venueVars, sends, tick_channel, cur,
                   attempt, timerLag, appended, runnerVars, apiVars>>

\* repository.batch_insert(batch_buffer.clone()) returned Err
FlushInsertErr ==
    /\ pPc = "flush"
    /\ flushCalls' = flushCalls + 1
    /\ attempt' = attempt + 1
    /\ IF RetriesExhausted(attempt + 1, cfg)
       THEN /\ stats' = [stats EXCEPT !.total_retry_attempts = @ + 1,
                                      !.total_failed_batches = @ + 1]
            /\ flushLog' = [flushLog EXCEPT !.failed_calls = @ + 1,
                                            !.discarded_ticks = @ + Len(batch_buffer),
                                            !.completed = @ + 1]
            /\ FlushReturns
       ELSE /\ stats' = [stats EXCEPT !.total_retry_attempts = @ + 1]
            /\ flushLog' = [flushLog EXCEPT !.failed_calls = @ + 1]
            /\ pPc' = "flush_delay"
            /\ UNCHANGED <<flushFrom, batch_buffer, elapsed>>
    /\ UNCHANGED <<cfg, shutdownVars, cPc, venueVars, sends, tick_channel, cur,
                   repoVars, timerLag, appended, runnerVars, apiVars>>

\* sleep(Duration::from_millis(config.retry_delay_ms)) is over
FlushRetryWake ==
    /\ pPc = "flush_delay"
    /\ pPc' = "flush"
    /\ UNCHANGED <<cfg, shutdownVars, cPc, venueVars, sends, tick_channel, cur,
                   batch_buffer, attempt, flushFrom, stats, repoVars, clockVars,
                   histVars, runnerVars, apiVars>>

\* ------------------------------------------------------------------- time

\* One second passes for the processing task's Instant and interval. The
\* interval's missed ticks fire back to back (MissedTickBehavior::Burst); a
\* tick that finds nothing to flush changes nothing, so the model keeps only
\* whether a tick is due (timerLag >= 0), not how many are.
ClockTick ==
    /\ elapsed' = Min(elapsed + 1, max_batch_time)
    /\ timerLag' = Min(timerLag + 1, 0)

AdvanceTime ==
    /\ pPc # "done"
    /\ ClockTick
    /\ UNCHANGED <<cfg, shutdownVars, cPc, venueVars, sends, tick_channel, procVars,
                   repoVars, histVars, runnerVars, apiVars>>

\* ---------------------------------------------------------- specification

CollectionStep ==
    \/ CollCheckShutdown
    \/ CollSubscribe
    \/ CollSubscribeOk
    \/ CollSubscribeErr
    \/ CollRetryWake
    \/ CollRetryShutdown

\* Steps the venue reader takes by itself
VenueStep ==
    \/ VenueCheckShutdown
    \/ VenueConnect
    \/ VenueShutdown
    \/ VenueReconnectWake
    \/ VenueReconnectShutdown

\* What the venue and the network decide
VenueEvent ==
    \/ VenueConnected
    \/ VenueConnectFailed
    \/ VenueReadError
    \/ VenueTrade
    \/ VenueClosed

SenderStep ==
    \/ SendTick
    \/ SendFails

ProcessingStep ==
    \/ ProcRecvTick
    \/ ProcPush
    \/ ProcChannelClosed
    \/ ProcTimer
    \/ ProcShutdown
    \/ FlushInsertOk
    \/ FlushInsertErr
    \/ FlushRetryWake

Next ==
    \/ Stop
    \/ CollectionStep
    \/ VenueStep
    \/ VenueEvent
    \/ SenderStep
    \/ ProcessingStep
    \/ AdvanceTime

Spec == Init /\ [][Next]_vars

\* The scheduling the runtime gives: a task that can run does run, select!
\* picks among its ready branches at random (none is starved), time passes,
\* a database call and a connect return. What the venue sends is not forced.
Fairness ==
    /\ WF_vars(CollectionStep)
    /\ WF_vars(VenueStep)
    /\ WF_vars(VenueConnected \/ VenueConnectFailed)
    /\ WF_vars(SenderStep)
    /\ WF_vars(ProcPush)
    /\ WF_vars(FlushInsertOk \/ FlushInsertErr)
    /\ WF_vars(FlushRetryWake)
    /\ SF_vars(ProcTimer)
    /\ SF_vars(ProcShutdown)
    /\ WF_vars(AdvanceTime)

SpecFair == Spec /\ Fairness

\* ------------------------------------------------------- the outer runner

\* One second passes for the runner's timeout as for the service.
RunnerTick ==
    /\ runner = "waiting"
    /\ runnerElapsed < RUNNER_TIMEOUT_SECS
    /\ runnerElapsed' = runnerElapsed + 1
    /\ IF pPc # "done" THEN ClockTick ELSE UNCHANGED clockVars
    /\ UNCHANGED <<cfg, shutdownVars, cPc, venueVars, sends, tick_channel, procVars,
                   repoVars, histVars, runner, apiVars>>

\* timeout(..) gave Ok(Ok(Ok(()))): start() joined both tasks
RunnerJoined ==
    /\ runner = "waiting"
    /\ cPc = "done" /\ pPc = "done"
    /\ runner' = "stopped"
    /\ UNCHANGED <<cfg, shutdownVars, cPc, venueVars, sends, tick_channel, procVars,
                   repoVars, clockVars, histVars, runnerElapsed, apiVars>>

\* timeout(..) gave Err(_): warn!("Service shutdown timeout, forcing exit");
\* std::process::exit(1)
RunnerTimeout ==
    /\ runner = "waiting"
    /\ runnerElapsed >= RUNNER_TIMEOUT_SECS
    /\ runner' = "forced_exit"
    /\ UNCHANGED <<cfg, shutdownVars, cPc, venueVars, sends, tick_channel, procVars,
                   repoVars, clockVars, histVars, runnerElapsed, apiVars>>

\* The tasks run while the process does. The service was moved into the
\* spawned task and the runner kept no shutdown sender and installs no
\* interrupt handler: nothing calls stop().
ServiceStep ==
    /\ runner = "waiting"
    /\ \/ CollectionStep
       \/ VenueStep
       \/ VenueEvent
       \/ SenderStep
       \/ ProcessingStep

NextLive ==
    \/ ServiceStep
    \/ RunnerTick
    \/ RunnerJoined
    \/ RunnerTimeout

SpecLive == InitLive /\ [][NextLive]_vars

\* ----------------------------------------------------------------- claims

AllTerminated == cPc = "done" /\ vPc = "idle" /\ pPc = "done" /\ sends = {}

\* C1, as claimed: once shutdown has completed and no batch has exhausted its
\* retries, every tick handed to the callback is in the store.
C1_NoTickLost ==
    (stops > 0 /\ AllTerminated /\ stats.total_failed_batches = 0)
        => Cardinality(store) = emitted

\* C2, as claimed: when the processing task has exited, by the shutdown
\* signal or by the closed channel, its batch buffer is empty.
C2_BufferEmptyAtExit == pPc = "done" => batch_buffer = <<>>

\* What the tasks, the runtime and time do by themselves, unlike what the
\* venue may or may not send on an open connection.
Progress ==
    \/ CollectionStep
    \/ VenueStep
    \/ VenueConnected
    \/ VenueConnectFailed
    \/ SenderStep
    \/ ProcessingStep
    \/ AdvanceTime

\* C3, as claimed: after stop() the three tasks terminate, so as long as one
\* of them has not, something can still happen without the venue's help.
C3_ShutdownTerminates == stops > 0 => (AllTerminated \/ ENABLED Progress)

\* C4, as claimed: the ticks of one symbol are pushed to the cache and to the
\* batch buffer in the order of their callbacks (tick ids are callback order).
C4_PerSymbolOrder ==
    \A i, j \in 1..Len(appended) :
        (i < j /\ appended[i].sym = appended[j].sym) => appended[i].id < appended[j].id

\* A step in which a batch_insert of the batch buffer returned Ok.
BatchWritten == stats'.total_batches_flushed = stats.total_batches_flushed + 1

IsSuffix(a, b) == Len(a) <= Len(b) /\ LastN(b, Len(a)) = a

C6_AtMostMaxRetryCalls == flushCalls <= cfg.max_retry_attempts

FlushEnds == pPc \in {"flush", "flush_delay"} /\ pPc' \in {"select", "done"}

\* C6, amended: a flush calls batch_insert at most max(1, max_retry_attempts)
\* times, with the retry delay between two calls; it ends on the first
\* success (total_batches_flushed + 1) or, when the failures reach
\* max_retry_attempts, by incrementing total_failed_batches once; either way
\* the buffer is empty afterwards and the loop goes on unless shutting down.
C6_FlushWithRetry ==
    /\ [](flushCalls <= Max(1, cfg.max_retry_attempts))
    /\ [][(pPc = "flush" /\ flushCalls' = flushCalls + 1) =>
            \/ /\ BatchWritten
               /\ FlushEnds
               /\ stats'.total_failed_batches = stats.total_failed_batches
            \/ /\ stats'.total_batches_flushed = stats.total_batches_flushed
               /\ stats'.total_retry_attempts = stats.total_retry_attempts + 1
               /\ IF attempt' >= cfg.max_retry_attempts
                  THEN /\ FlushEnds
                       /\ stats'.total_failed_batches = stats.total_failed_batches + 1
                  ELSE /\ pPc' = "flush_delay"
                       /\ batch_buffer' = batch_buffer
                       /\ stats'.total_failed_batches = stats.total_failed_batches]_vars
    /\ [][FlushEnds =>
            /\ batch_buffer' = <<>>
            /\ pPc' = IF flushFrom = "shutdown" THEN "done" ELSE "select"]_vars

\* C6's case: with max_retry_attempts = 2 a flush failed twice, with the
\* delay in between, and the batch was discarded.
C6_Witness ==
    /\ cfg.max_retry_attempts = 2
    /\ flushCalls = 2
    /\ stats.total_failed_batches = 1
    /\ batch_buffer = <<>>
    /\ pPc = "select"

\* C7: a timer tick starts a flush exactly when the buffer is non-empty and
\* max_batch_time has elapsed since the last flush; and while the processing
\* task runs, a non-empty buffer is eventually emptied.
C7_TimerFlush ==
    /\ [][timerLag' < timerLag =>
            /\ pPc' = "flush" <=> (batch_buffer # <<>> /\ elapsed >= max_batch_time)
            /\ pPc' = "flush" => flushFrom' = "timer"
            /\ batch_buffer' = batch_buffer /\ stats' = stats /\ store' = store]_vars
    /\ (pPc # "done" /\ batch_buffer # <<>>) ~> (batch_buffer = <<>> \/ pPc = "done")

\* C7's case: the timer started the flush of a buffer that was not full.
C7_Witness ==
    /\ pPc = "flush"
    /\ flushFrom = "timer"
    /\ Len(batch_buffer) < cfg.max_batch_size

\* C8: the buffer never holds more than max_batch_size ticks, a full buffer
\* is flushed before the next tick is received, and total_ticks_processed
\* counts every tick that was appended once.
C8_BufferBound ==
    /\ Len(batch_buffer) <= cfg.max_batch_size
    /\ pPc \in {"select", "push"} => Len(batch_buffer) < cfg.max_batch_size
    /\ stats.total_ticks_processed = Len(appended)

\* C8's case: the tick just appended filled the buffer and the flush began.
C8_Witness ==
    /\ pPc = "flush"
    /\ flushFrom = "tick"
    /\ Len(batch_buffer) = cfg.max_batch_size
    /\ stats.total_ticks_processed = cfg.max_batch_size

\* C9: the channel never holds more than its capacity, and the reader can
\* always deliver its next tick to the callback, whatever the channel holds.
C9_ChannelBound ==
    /\ Len(tick_channel) <= TickChannelCapacity
    /\ (vPc = "connected" /\ emitted < MaxTicks) => ENABLED VenueTrade

\* C9's case: the channel is full, a spawned send waits for space, and the
\* reader is back in its message loop.
C9_Witness ==
    /\ Len(tick_channel) = TickChannelCapacity
    /\ sends # {}
    /\ vPc = "connected"

\* C10, as claimed: the runner keeps the service running until shutdown is
\* signalled, and forces the exit only when the grace after that signal has
\* expired, the buffer having been flushed on the signal.
C10_GraceStartsAtShutdown == runner = "forced_exit" => stops > 0

\* C11, as claimed: subscribe_trades returns success only when shutdown has
\* been signalled, so the collection task ends only after a call of stop().
C11_RunsUntilShutdown ==
    /\ vPc = "ret_ok" => stops > 0
    /\ cPc = "done" => stops > 0

\* C12, as claimed: a failed attempt below the cap is followed by the
\* reconnect delay, the Network error is returned at exactly
\* MAX_RECONNECT_ATTEMPTS failures, and once shutdown has been signalled the
\* check before an attempt and the wait of the delay end the call with
\* success: no connection attempt is started after the signal.
C12_ReconnectOrStop ==
    [][ /\ reconnect_attempts' = reconnect_attempts + 1 =>
            vPc' = IF reconnect_attempts' < MAX_RECONNECT_ATTEMPTS
                   THEN "reconnect_delay" ELSE "ret_err"
        /\ vPc' = "ret_err" => reconnect_attempts' = MAX_RECONNECT_ATTEMPTS
        /\ (stops > 0 /\ vPc = "loop_top" /\ vPc' # vPc) => vPc' = "ret_ok"
        /\ (stops > 0 /\ vPc = "reconnect_delay" /\ vPc' # vPc) =>
              vPc' \in {"ret_ok", "loop_top"}
      ]_vars

\* ================================================== the venue adapter's
\* ================================================== reading of the feed

\* Frames read from one WebSocket connection.
MaxFrames == 2
\* Largest number of trades in one response of the historical endpoint.
MaxTrades == 2
\* chrono's range of DateTime::from_timestamp_millis, scaled down: a
\* trade_time above it gives None.
MAX_TIMESTAMP_MILLIS == 2

\* The texts of "p" and "q" tried, and what Decimal::from_str makes of them.
DecimalTexts == {"50000.0", "1.0", "0", "-1", "abc"}

DecimalFromStr(text) ==
    CASE text = "50000.0" -> [ok |-> TRUE, v |-> 50000]
      [] text = "1.0" -> [ok |-> TRUE, v |-> 1]
      [] text = "0" -> [ok |-> TRUE, v |-> 0]
      [] text = "-1" -> [ok |-> TRUE, v |-> -1]
      [] OTHER -> [ok |-> FALSE, v |-> 0]

\* BinanceTradeMessage: s, t, p, q, T, m
BinanceTradeMessages ==
    [s : {"BTCUSDT"}, t : {7}, p : DecimalTexts \ {"1.0"}, q : {"1.0", "0", "abc"},
     T : 1..(MAX_TIMESTAMP_MILLIS + 1), m : BOOLEAN]

ParseError == [ok |-> FALSE]

\* A variant of convert_binance_to_tick_data that takes the maker flag for the
\* side of the taker's counterparty: Buy when the buyer is the maker.
convert_side_of_maker(msg) ==
    IF msg.T > MAX_TIMESTAMP_MILLIS \/ ~DecimalFromStr(msg.p).ok
       \/ ~DecimalFromStr(msg.q).ok
       \/ DecimalFromStr(msg.p).v <= 0 \/ DecimalFromStr(msg.q).v <= 0
    THEN ParseError
    ELSE [ok |-> TRUE,
          tick |-> [timestamp |-> msg.T, sym |-> msg.s,
                    price |-> DecimalFromStr(msg.p).v,
                    quantity |-> DecimalFromStr(msg.q).v,
                    side |-> IF msg.m THEN "Buy" ELSE "Sell",
                    trade_id |-> ToString(msg.t),
                    is_buyer_maker |-> msg.m]]

\* exchange/utils.rs: convert_binance_to_tick_data
convert_binance_to_tick_data(msg) ==
    LET price == DecimalFromStr(msg.p)
        quantity == DecimalFromStr(msg.q)
    IN IF msg.T > MAX_TIMESTAMP_MILLIS THEN ParseError
       ELSE IF ~price.ok THEN ParseError
       ELSE IF ~quantity.ok THEN ParseError
       ELSE IF price.v <= 0 THEN ParseError
       ELSE IF quantity.v <= 0 THEN ParseError
       ELSE [ok |-> TRUE,
             tick |-> [timestamp |-> msg.T, sym |-> msg.s, price |-> price.v,
                       quantity |-> quantity.v,
                       side |-> IF msg.m THEN "Sell" ELSE "Buy",
                       trade_id |-> ToString(msg.t),
                       is_buyer_maker |-> msg.m]]

TextFrames ==
    {Frame("text", TRUE, TRUE, FALSE, FALSE, m) : m \in BinanceTradeMessages}
    \cup {Frame("text", TRUE, FALSE, TRUE, FALSE, m) : m \in BinanceTradeMessages}
    \cup {Frame("text", TRUE, FALSE, FALSE, c, NoMsg) : c \in BOOLEAN}
    \cup {Frame("text", FALSE, FALSE, FALSE, FALSE, NoMsg)}

\* A variant of parse_trade_message that fills a JSON text without the fields
\* of a trade with defaults, as the historical endpoint does.
parse_with_defaults(f) ==
    IF f.json /\ (f.stream \/ f.trade) THEN convert_binance_to_tick_data(f.msg)
    ELSE IF f.json
    THEN convert_binance_to_tick_data(
             [s |-> "BTCUSDT", t |-> 0, p |-> "1.0", q |-> "1.0", T |-> 0, m |-> FALSE])
    ELSE ParseError

\* BinanceExchange::parse_trade_message
parse_trade_message(f) ==
    IF f.json /\ f.stream THEN convert_binance_to_tick_data(f.msg)
    ELSE IF f.json /\ f.trade THEN convert_binance_to_tick_data(f.msg)
    ELSE IF f.json /\ f.ctl THEN ParseError
    ELSE ParseError

\* A trade of the historical endpoint's JSON: a field is <<>> when the key is
\* missing or of another type, <<v>> when it holds v.
HistoricalTrades ==
    [a : {<<7>>}, p : {<<>>, <<"50000.0">>}, q : {<<"1.0">>}, T : {<<1>>},
     m : {<<>>, <<TRUE>>, <<FALSE>>}]

RECURSIVE SeqsUpTo(_, _)
SeqsUpTo(S, n) ==
    IF n = 0 THEN {<<>>}
    ELSE SeqsUpTo(S, n - 1) \cup
         {Append(q, x) : q \in {r \in SeqsUpTo(S, n - 1) : Len(r) = n - 1}, x \in S}

\* .as_u64().unwrap_or(0), .as_str().unwrap_or("0"), .as_bool().unwrap_or(false)
unwrap_or(opt, default) == IF opt = <<>> THEN default ELSE opt[1]

\* fetch_historical_trades_api, the loop over the trades of the response: a
\* trade that does not convert is skipped with a warning.
RECURSIVE ConvertTrades(_, _)
ConvertTrades(symbol, trades) ==
    IF trades = <<>> THEN <<>>
    ELSE LET trade == Head(trades)
             trade_msg == [s |-> symbol,
                           t |-> unwrap_or(trade.a, 0),
                           p |-> unwrap_or(trade.p, "0"),
                           q |-> unwrap_or(trade.q, "0"),
                           T |-> unwrap_or(trade.T, 0),
                           m |-> unwrap_or(trade.m, FALSE)]
             r == convert_binance_to_tick_data(trade_msg)
         IN (IF r.ok THEN <<r.tick>> ELSE <<>>) \o ConvertTrades(symbol, Tail(trades))

\* The adapter before any connection; the service's tasks are not part of
\* this specification and stay as they start.
InitFeed ==
    /\ InitService
    /\ memory_config = [max_ticks_per_symbol |-> max_ticks_per_symbol]
    /\ NoBacktest
    /\ startup = NoStartup
    /\ pushes = <<>>
    /\ cfg.max_retry_attempts = MaxRetryAttempts
    /\ runner = "none"
    /\ runnerElapsed = 0

\* connect_async and the subscription succeeded: the message loop starts.
FeedOpen ==
    /\ feed.conn = "none"
    /\ feed' = [feed EXCEPT !.conn = "open"]
    /\ UNCHANGED <<pipelineVars, repoVars, call, accepted, memory_config,
                     backtestVars, startup, pushes>>

\* Some(Ok(Message::Text(text))): parse; Ok => callback(tick_data),
\* Err => warn!("Parse error: ..."); the loop goes on.
FeedReadText ==
    /\ feed.conn = "open"
    /\ feed.reads < MaxFrames
    /\ \E f \in TextFrames :
         LET r == parse_trade_message(f)
         IN feed' = IF r.ok
                    THEN [feed EXCEPT !.reads = @ + 1, !.frame = f,
                                      !.delivered = Append(@, r.tick)]
                    ELSE [feed EXCEPT !.reads = @ + 1, !.frame = f,
                                      !.dropped = @ + 1]
    /\ UNCHANGED <<pipelineVars, repoVars, call, accepted, memory_config,
                     backtestVars, startup, pushes>>

\* Some(Ok(Message::Ping(ping))): write.send(Message::Pong(ping)).await?
FeedReadPing ==
    /\ feed.conn = "open"
    /\ feed.reads < MaxFrames
    /\ \E sent \in BOOLEAN :
         feed' = [feed EXCEPT !.reads = @ + 1, !.frame = OtherFrame("ping"),
                              !.conn = IF sent THEN "open" ELSE "error"]
    /\ UNCHANGED <<pipelineVars, repoVars, call, accepted, memory_config,
                     backtestVars, startup, pushes>>

\* _ => continue (Pong, Binary, raw frames)
FeedReadOther ==
    /\ feed.conn = "open"
    /\ feed.reads < MaxFrames
    /\ feed' = [feed EXCEPT !.reads = @ + 1, !.frame = OtherFrame("pong")]
    /\ UNCHANGED <<pipelineVars, repoVars, call, accepted, memory_config,
                     backtestVars, startup, pushes>>

\* Some(Ok(Message::Close(_))) and None: break, Ok(())
FeedReadClose ==
    /\ feed.conn = "open"
    /\ feed.reads < MaxFrames
    /\ \E k \in {"close", "end"} :
         feed' = [feed EXCEPT !.reads = @ + 1, !.frame = OtherFrame(k),
                              !.conn = "closed"]
    /\ UNCHANGED <<pipelineVars, repoVars, call, accepted, memory_config,
                     backtestVars, startup, pushes>>

\* Some(Err(e)): return Err(WebSocketError)
FeedReadError ==
    /\ feed.conn = "open"
    /\ feed.reads < MaxFrames
    /\ feed' = [feed EXCEPT !.reads = @ + 1, !.frame = OtherFrame("error"),
                            !.conn = "error"]
    /\ UNCHANGED <<pipelineVars, repoVars, call, accepted, memory_config,
                     backtestVars, startup, pushes>>

\* get_historical_trades: an empty symbol, a failed request, a status that is
\* not a success or a body that is not a JSON array give an error; else the
\* trades that convert.
get_historical_trades ==
    /\ \E symbol \in {"", "BTCUSDT"}, http_ok \in BOOLEAN,
          trades \in SeqsUpTo(HistoricalTrades, MaxTrades) :
         feed' = [feed EXCEPT !.fetched =
                    IF symbol = "" \/ ~http_ok THEN [ok |-> FALSE, ticks |-> <<>>]
                    ELSE [ok |-> TRUE, ticks |-> ConvertTrades(symbol, trades)]]
    /\ UNCHANGED <<pipelineVars, repoVars, call, accepted, memory_config,
                     backtestVars, startup, pushes>>

NextFeed ==
    \/ FeedOpen
    \/ FeedReadText
    \/ FeedReadPing
    \/ FeedReadOther
    \/ FeedReadClose
    \/ FeedReadError
    \/ get_historical_trades

SpecFeed == InitFeed /\ [][NextFeed]_vars

\* The text frame is a trade print: it has the shape of a trade, wrapped in a
\* stream message or not.
IsTradePrint(f) == f.json /\ (f.stream \/ f.trade)

\* C13: a text frame that is not a trade print (an acknowledgement with
\* "result" or "id", other JSON, text that is not JSON) is not handed to the
\* callback and leaves the connection open: it is counted as dropped and the
\* reader reads on.
C13_ControlFrameDropped ==
    [][ (feed'.reads = feed.reads + 1 /\ feed'.frame.kind = "text"
         /\ ~IsTradePrint(feed'.frame))
        => /\ feed'.delivered = feed.delivered
           /\ feed'.dropped = feed.dropped + 1
           /\ feed'.conn = "open"
      ]_vars

\* C13's case: an acknowledgement was read and dropped, and after it a trade
\* print was read on the same connection and handed to the callback.
C13_Witness ==
    /\ feed.conn = "open"
    /\ feed.dropped = 1
    /\ feed.reads = 2
    /\ Len(feed.delivered) = 1
    /\ IsTradePrint(feed.frame)

SideFollowsMaker(tick) ==
    /\ tick.side \in {"Buy", "Sell"}
    /\ tick.side = "Sell" <=> tick.is_buyer_maker

\* C14: every tick the adapter hands to the callback or returns from the
\* historical endpoint has side Sell if and only if is_buyer_maker is true,
\* and Buy otherwise; is_buyer_maker is the "m" of the trade it was read from.
C14_SellIffBuyerMaker ==
    /\ \A i \in 1..Len(feed.delivered) : SideFollowsMaker(feed.delivered[i])
    /\ \A i \in 1..Len(feed.fetched.ticks) : SideFollowsMaker(feed.fetched.ticks[i])
    /\ (feed.frame.kind = "text" /\ parse_trade_message(feed.frame).ok) =>
         /\ feed.delivered # <<>>
         /\ feed.delivered[Len(feed.delivered)].is_buyer_maker = feed.frame.msg.m

\* C14's case: the feed delivered a Sell and a Buy, and the historical
\* endpoint returned a Sell and a Buy (one of a trade without "m").
C14_Witness ==
    /\ \E i, j \in 1..Len(feed.delivered) :
         feed.delivered[i].side = "Sell" /\ feed.delivered[j].side = "Buy"
    /\ \E i, j \in 1..Len(feed.fetched.ticks) :
         feed.fetched.ticks[i].side = "Sell" /\ feed.fetched.ticks[j].side = "Buy"

\* ================================================ the repository's API
\* ================================================ (data/repository.rs)
\* In this part store holds rows of tick_data, which are TickData records,
\* and cache the memory tier of the TieredCache. The remote tier is not
\* reachable: get_recent_ticks serves what the memory tier holds.

\* repository.rs: const DEFAULT_QUERY_LIMIT: u32 = 1000
DEFAULT_QUERY_LIMIT == 1000
\* repository.rs: const MAX_QUERY_LIMIT: u32 = 10000
MAX_QUERY_LIMIT == 10000
\* repository.rs: const MAX_BATCH_SIZE: usize = 1000, the chunk of
\* batch_insert, scaled down so that a list of MaxBatchLen ticks spans two
\* chunks.
MAX_BATCH_SIZE == 2
\* Longest list passed to batch_insert.
MaxBatchLen == 3
\* Timestamps of the ticks are 1..MaxTimestamp.
MaxTimestamp == 2
\* Prices of the valid ticks are 1..MaxPrice.
MaxPrice == 2

TradeIds == {"b1", "b2"}

TickData(timestamp, symbol, price, quantity, trade_id) ==
    [timestamp |-> timestamp, sym |-> symbol, price |-> price,
     quantity |-> quantity, side |-> "Buy", trade_id |-> trade_id,
     is_buyer_maker |-> FALSE]

\* Ticks that break one rule of validate_tick_data each.
InvalidTicks ==
    {TickData(1, "", 1, 1, "b1"), TickData(1, "BTCUSDT", 0, 1, "b1"),
     TickData(1, "BTCUSDT", -1, 1, "b1"), TickData(1, "BTCUSDT", 1, 0, "b1"),
     TickData(1, "BTCUSDT", 1, 1, "")}

\* The valid ticks passed to insert_tick: trade b1 at timestamp 1 with each
\* price, trade b2 at each timestamp, its price being its timestamp.
ValidTicks ==
    {TickData(1, "BTCUSDT", pr, 1, "b1") : pr \in 1..MaxPrice}
    \cup {TickData(ts, "BTCUSDT", ts, 1, "b2") : ts \in 1..MaxTimestamp}

\* The ticks passed to insert_tick.
InsertTicks == ValidTicks \cup InvalidTicks

\* The ticks of the lists passed to batch_insert.
BatchTicks ==
    {TickData(1, "BTCUSDT", 1, 1, id) : id \in TradeIds}
    \cup {TickData(1, "BTCUSDT", 0, 1, "b1")}

\* A variant of validate_tick_data that lets a price of zero pass.
validate_negative_price_only(tick) ==
    IF tick.sym = "" THEN [ok |-> FALSE, err |-> "Symbol cannot be empty"]
    ELSE IF tick.price < 0 THEN [ok |-> FALSE, err |-> "Price must be positive"]
    ELSE IF tick.quantity <= 0
    THEN [ok |-> FALSE, err |-> "Quantity must be positive"]
    ELSE IF tick.trade_id = ""
    THEN [ok |-> FALSE, err |-> "Trade ID cannot be empty"]
    ELSE [ok |-> TRUE, err |-> ""]

\* TickDataRepository::validate_tick_data
validate_tick_data(tick) ==
    IF tick.sym = "" THEN [ok |-> FALSE, err |-> "Symbol cannot be empty"]
    ELSE IF tick.price <= 0 THEN [ok |-> FALSE, err |-> "Price must be positive"]
    ELSE IF tick.quantity <= 0
    THEN [ok |-> FALSE, err |-> "Quantity must be positive"]
    ELSE IF tick.trade_id = ""
    THEN [ok |-> FALSE, err |-> "Trade ID cannot be empty"]
    ELSE [ok |-> TRUE, err |-> ""]

\* The unique key of tick_data: (symbol, trade_id, timestamp)
ConflictKey(tick) == <<tick.sym, tick.trade_id, tick.timestamp>>

\* A variant of InsertRow for a table without the unique key.
InsertRowWithoutKey(st, tick) == st \cup {tick}

\* INSERT ... ON CONFLICT (symbol, trade_id, timestamp) DO NOTHING, one row
InsertRow(st, tick) ==
    IF \E r \in st : ConflictKey(r) = ConflictKey(tick) THEN st ELSE st \cup {tick}

\* The same statement with the rows of a chunk, in the order of the chunk: a
\* row that conflicts with an earlier row of the statement is skipped as well.
RECURSIVE InsertRows(_, _)
InsertRows(st, ticks) ==
    IF ticks = <<>> THEN st ELSE InsertRows(InsertRow(st, Head(ticks)), Tail(ticks))

\* A variant of batch_insert_chunk that reports the rows it was given.
batch_insert_chunk_counting_all(st, ticks) ==
    [store |-> InsertRows(st, ticks), rows |-> Len(ticks)]

\* TickDataRepository::batch_insert_chunk: the store after the statement and
\* result.rows_affected()
batch_insert_chunk(st, ticks) ==
    LET after == InsertRows(st, ticks)
    IN [store |-> after, rows |-> Cardinality(after) - Cardinality(st)]

\* self.cache.push_tick(tick).await, whose error is only logged
TryPush(c, tick, pushed) == IF pushed THEN push_tick(c, tick) ELSE c

RECURSIVE TryPushAll(_, _, _)
TryPushAll(c, ticks, pushed) ==
    IF ticks = <<>> THEN c
    ELSE TryPushAll(TryPush(c, Head(ticks), pushed), Tail(ticks), pushed)

\* TickDataRepository::batch_insert, the loop over the chunks from chunk k on:
\* chunk fail_at fails with a database error, which ends the call and leaves
\* what the chunks before it did.
RECURSIVE InsertChunks(_, _, _, _, _, _, _)
InsertChunks(st, c, ticks, k, fail_at, pushed, total_inserted) ==
    IF ticks = <<>>
    THEN [res |-> [Ok EXCEPT !.rows = total_inserted], store |-> st, cache |-> c]
    ELSE IF k = fail_at
    THEN [res |-> Err("Database"), store |-> st, cache |-> c]
    ELSE LET n == Min(MAX_BATCH_SIZE, Len(ticks))
             chunk == SubSeq(ticks, 1, n)
             inserted == batch_insert_chunk(st, chunk)
         IN InsertChunks(inserted.store, TryPushAll(c, chunk, pushed),
                         SubSeq(ticks, n + 1, Len(ticks)), k + 1, fail_at, pushed,
                         total_inserted + inserted.rows)

\* A variant of BatchInsert that validates each chunk when its turn comes.
BatchInsertValidatingChunks(st, c, ticks, fail_at, pushed) ==
    LET n == Min(MAX_BATCH_SIZE, Len(ticks))
        first == SubSeq(ticks, 1, n)
    IN IF ticks = <<>> THEN [res |-> Ok, store |-> st, cache |-> c]
       ELSE IF \E i \in 1..n : ~validate_tick_data(ticks[i]).ok
       THEN [res |-> Err("Validation"), store |-> st, cache |-> c]
       ELSE IF \E i \in 1..Len(ticks) : ~validate_tick_data(ticks[i]).ok
       THEN [res |-> Err("Validation"),
             store |-> batch_insert_chunk(st, first).store,
             cache |-> TryPushAll(c, first, pushed)]
       ELSE InsertChunks(st, c, ticks, 1, fail_at, pushed, 0)

\* TickDataRepository::batch_insert
BatchInsert(st, c, ticks, fail_at, pushed) ==
    IF ticks = <<>> THEN [res |-> Ok, store |-> st, cache |-> c]
    ELSE IF \E i \in 1..Len(ticks) : ~validate_tick_data(ticks[i]).ok
    THEN [res |-> Err("Validation"), store |-> st, cache |-> c]
    ELSE InsertChunks(st, c, ticks, 1, fail_at, pushed, 0)

\* A TickQuery: symbol, limit and start_time (<<>> is None); end_time and
\* trade_side are None.
TickQueries ==
    [symbol : Symbols, limit : {<<>>, <<1>>, <<2>>, <<10>>},
     start_time : {<<>>} \cup {<<ts>> : ts \in 1..MaxTimestamp}]

\* Utc::now(), in the unit of the timestamps; an hour is one unit.
Now == MaxTimestamp + 1

\* TickDataRepository::is_recent_query
is_recent_query(query) ==
    IF query.start_time # <<>> THEN Now - query.start_time[1] <= 1 ELSE TRUE

\* query.limit.unwrap_or(DEFAULT_QUERY_LIMIT).min(MAX_QUERY_LIMIT)
QueryLimit(query) == Min(unwrap_or(query.limit, DEFAULT_QUERY_LIMIT), MAX_QUERY_LIMIT)

\* TieredCache::get_recent_ticks, memory tier: up to count ticks of the
\* symbol, the most recent last.
get_recent_ticks(c, symbol, count) == LastN(c[symbol], count)

\* The rows a query selects: WHERE symbol = .. AND timestamp >= start_time
Selected(st, query) ==
    {r \in st : /\ r.sym = query.symbol
                /\ query.start_time # <<>> => r.timestamp >= query.start_time[1]}

\* ORDER BY timestamp DESC LIMIT n over the rows: every order the database
\* may give to rows of the same timestamp.
OrderedDescLimit(rows, n) ==
    LET len == Min(n, Cardinality(rows))
    IN {s \in SeqsUpTo(rows, len) :
          /\ Len(s) = len
          /\ \A i, j \in 1..len : i < j =>
                 s[i] # s[j] /\ s[i].timestamp >= s[j].timestamp
          /\ \A r \in rows \ SeqToSet(s) :
                 \A i \in 1..len : s[i].timestamp >= r.timestamp}

\* TickDataRepository::query_ticks_from_db
query_ticks_from_db(st, query) == OrderedDescLimit(Selected(st, query), QueryLimit(query))

\* A call of the repository's API: the operation, its argument, its result,
\* and whether it repeats the call before it, which succeeded.
Call(op, arg, res) ==
    [op |-> op, arg |-> arg, res |-> res,
     repeat |-> call.op = op /\ call.arg = arg /\ call.res.ok]

\* TickDataRepository::new: an empty table, an empty cache; the service's
\* tasks are not part of this specification and stay as they start.
InitRepo ==
    /\ InitService
    /\ memory_config = [max_ticks_per_symbol |-> max_ticks_per_symbol]
    /\ NoBacktest
    /\ startup = NoStartup
    /\ pushes = <<>>
    /\ cfg.max_retry_attempts = MaxRetryAttempts
    /\ runner = "none"
    /\ runnerElapsed = 0

\* TickDataRepository::insert_tick: db_ok is the outcome of the INSERT,
\* pushed that of cache.push_tick.
insert_tick ==
    \E tick \in InsertTicks, db_ok \in BOOLEAN, pushed \in BOOLEAN :
      /\ IF ~validate_tick_data(tick).ok
         THEN /\ call' = Call("insert_tick", tick, Err("Validation"))
              /\ UNCHANGED <<repoVars, accepted>>
         ELSE IF ~db_ok
         THEN /\ call' = Call("insert_tick", tick, Err("Database"))
              /\ UNCHANGED <<repoVars, accepted>>
         ELSE /\ store' = InsertRow(store, tick)
              /\ cache' = TryPush(cache, tick, pushed)
              /\ call' = Call("insert_tick", tick, Ok)
              /\ accepted' = accepted \cup {tick}
      /\ UNCHANGED <<pipelineVars, feed, memory_config,
                     backtestVars, startup, pushes>>

\* TickDataRepository::batch_insert: fail_at is the chunk whose INSERT fails
\* (0: none), pushed the outcome of the cache pushes.
batch_insert ==
    \E ticks \in SeqsUpTo(BatchTicks, MaxBatchLen), fail_at \in 0..2,
       pushed \in BOOLEAN :
      LET r == BatchInsert(store, cache, ticks, fail_at, pushed)
          done == IF r.res.ok THEN Len(ticks)
                  ELSE IF r.res.err = "Database"
                  THEN Min(Len(ticks), (fail_at - 1) * MAX_BATCH_SIZE)
                  ELSE 0
      IN /\ store' = r.store
         /\ cache' = r.cache
         /\ call' = Call("batch_insert", ticks, r.res)
         /\ accepted' = accepted \cup SeqToSet(SubSeq(ticks, 1, done))
         /\ UNCHANGED <<pipelineVars, feed, memory_config,
                     backtestVars, startup, pushes>>

\* TickDataRepository::get_ticks: db_ok is the outcome of the SELECT, pushed
\* that of the cache pushes.
get_ticks ==
    \E query \in TickQueries, db_ok \in BOOLEAN, pushed \in BOOLEAN :
      LET limit == QueryLimit(query)
          cached_ticks == get_recent_ticks(cache, query.symbol, limit)
      IN /\ IF is_recent_query(query) /\ Len(cached_ticks) = limit
            THEN /\ call' = Call("get_ticks", query, [Ok EXCEPT !.ticks = cached_ticks])
                 /\ UNCHANGED repoVars
            ELSE IF ~db_ok
            THEN /\ call' = Call("get_ticks", query, Err("Database"))
                 /\ UNCHANGED repoVars
            ELSE \E ticks \in query_ticks_from_db(store, query) :
                   /\ cache' = TryPushAll(cache, ticks, pushed)
                   /\ call' = Call("get_ticks", query, [Ok EXCEPT !.ticks = ticks])
                   /\ UNCHANGED store
         /\ UNCHANGED <<pipelineVars, feed, accepted, memory_config,
                     backtestVars, startup, pushes>>

\* SELECT price FROM tick_data WHERE symbol = $1 ORDER BY timestamp DESC
\* LIMIT 1, fetch_optional
LatestPriceFromDb(st, symbol) ==
    LET rows == {r \in st : r.sym = symbol}
    IN IF rows = {} THEN {<<>>}
       ELSE {<<r.price>> : r \in {x \in rows : \A y \in rows : x.timestamp >= y.timestamp}}

\* TickDataRepository::get_latest_price
get_latest_price ==
    \E symbol \in Symbols, db_ok \in BOOLEAN :
      LET cached_ticks == get_recent_ticks(cache, symbol, 1)
      IN /\ IF cached_ticks # <<>>
            THEN call' = Call("get_latest_price", symbol,
                              [Ok EXCEPT !.price = <<Head(cached_ticks).price>>])
            ELSE IF ~db_ok
            THEN call' = Call("get_latest_price", symbol, Err("Database"))
            ELSE \E price \in LatestPriceFromDb(store, symbol) :
                   call' = Call("get_latest_price", symbol, [Ok EXCEPT !.price = price])
         /\ UNCHANGED <<pipelineVars, repoVars, feed, accepted, memory_config,
                     backtestVars, startup, pushes>>

NextRepo ==
    \/ insert_tick
    \/ batch_insert
    \/ get_ticks
    \/ get_latest_price

SpecRepo == InitRepo /\ [][NextRepo]_vars

\* The tick breaks the validation contract of the inserts.
Invalid(tick) ==
    tick.sym = "" \/ tick.trade_id = "" \/ tick.price <= 0 \/ tick.quantity <= 0

C16_BatchAllOrNothing ==
    [][ (call'.op = "batch_insert"
         /\ \E i \in 1..Len(call'.arg) : Invalid(call'.arg[i]))
        => /\ call'.res = Err("Validation")
           /\ store' = store
           /\ cache' = cache
      ]_vars

\* C16's case: the invalid element is the last of a list of two chunks, the
\* first chunk being valid, and nothing was written.
C16_Witness ==
    /\ call.op = "batch_insert"
    /\ Len(call.arg) > MAX_BATCH_SIZE
    /\ \A i \in 1..MAX_BATCH_SIZE : ~Invalid(call.arg[i])
    /\ Invalid(call.arg[Len(call.arg)])
    /\ call.res = Err("Validation")
    /\ store = {}
    /\ \A sym \in Symbols : cache[sym] = <<>>

NewKeys(st, ticks) ==
    {ConflictKey(ticks[i]) : i \in 1..Len(ticks)} \ {ConflictKey(r) : r \in st}

\* Scenario S2: three valid ticks of one symbol and one timestamp with the
\* trade ids b1, b2, b2.
IsBatchDedup(ticks) ==
    /\ Len(ticks) = 3
    /\ \A i \in 1..3 : ~Invalid(ticks[i])
    /\ \A i \in 1..3 : ticks[i].sym = ticks[1].sym
                       /\ ticks[i].timestamp = ticks[1].timestamp
    /\ <<ticks[1].trade_id, ticks[2].trade_id, ticks[3].trade_id>> = <<"b1", "b2", "b2">>

\* C18: a successful batch_insert returns the number of rows it added to the
\* store, an element whose key is that of an earlier element of the list or
\* of an existing row not being counted; for the trade ids b1, b2, b2 of one
\* symbol and timestamp, on a table without these rows, it returns 2, and the
\* get_ticks of that symbol with limit 10 that follows returns the 2 rows.
C18_BatchRowCount ==
    [][ /\ (call'.op = "batch_insert" /\ call'.res.ok) =>
              /\ call'.res.rows = Cardinality(NewKeys(store, call'.arg))
              /\ call'.res.rows = Cardinality(store') - Cardinality(store)
              /\ (IsBatchDedup(call'.arg) /\ store = {}) => call'.res.rows = 2
        /\ (/\ call.op = "batch_insert" /\ call.res.ok /\ IsBatchDedup(call.arg)
            /\ call.res.rows = 2 /\ Cardinality(store) = 2
            /\ call'.op = "get_ticks" /\ call'.res.ok
            /\ call'.arg = [symbol |-> call.arg[1].sym, limit |-> <<10>>,
                            start_time |-> <<>>])
           => /\ Len(call'.res.ticks) = 2
              /\ SeqToSet(call'.res.ticks) = store
      ]_vars

\* C18's case: on an empty table the list b1, b2, b2 was inserted, 2 rows
\* were reported and the table has 2 rows.
C18_Witness ==
    /\ call.op = "batch_insert"
    /\ IsBatchDedup(call.arg)
    /\ call.res.ok
    /\ call.res.rows = 2
    /\ Cardinality(store) = 2

\* C19, as claimed: the get_ticks with limit 1 that follows a successful
\* insert_tick(T), for T's symbol, returns T as its first element.
C19_ReadYourInsert ==
    [][ (/\ call.op = "insert_tick" /\ call.res.ok
         /\ call'.op = "get_ticks" /\ call'.res.ok
         /\ call'.arg = [symbol |-> call.arg.sym, limit |-> <<1>>,
                         start_time |-> <<>>])
        => /\ call'.res.ticks # <<>>
           /\ call'.res.ticks[1] = call.arg
      ]_vars

\* The prices of the ticks of the symbol with the greatest timestamp, <<>>
\* when the symbol has no tick.
PricesAtGreatestTimestamp(ticks, symbol) ==
    LET rows == {r \in ticks : r.sym = symbol}
    IN IF rows = {} THEN {<<>>}
       ELSE {<<r.price>> : r \in {x \in rows : \A y \in rows : y.timestamp <= x.timestamp}}

\* C20, as claimed: get_latest_price returns the price of the tick of the
\* symbol with the greatest timestamp among those inserted, or none when
\* there is none.
C20_LatestPrice ==
    [][ (call'.op = "get_latest_price" /\ call'.res.ok)
        => call'.res.price \in PricesAtGreatestTimestamp(accepted, call'.arg)
      ]_vars

\* ------------------------------------------------- repository: range reads

\* Bound: the capacity of the memory ring of a repository that is read with
\* limits above 1 (50 in the GUI's cache, 10 in the backtest's).
MaxRing == 2

\* The counts passed to get_recent_ticks_for_backtest: none, fewer than the
\* rows, as many, and one above the clamp.
BacktestCounts == {0, 1, 2, 2 * MAX_QUERY_LIMIT}

\* A variant of Reverse that leaves the rows in the order of the SELECT.
ReverseSkipped(s) == s

\* Vec::reverse
Reverse(s) == [i \in 1..Len(s) |-> s[Len(s) - i + 1]]

\* TickDataRepository::get_recent_ticks_for_backtest: SELECT ... WHERE
\* symbol = $1 ORDER BY timestamp DESC LIMIT min(count, MAX_QUERY_LIMIT),
\* then reversed; db_ok is the outcome of the SELECT.
get_recent_ticks_for_backtest ==
    \E symbol \in Symbols, count \in BacktestCounts, db_ok \in BOOLEAN :
      LET limit == Min(count, MAX_QUERY_LIMIT)
          arg == [symbol |-> symbol, count |-> count]
      IN /\ IF ~db_ok
            THEN call' = Call("get_recent_ticks_for_backtest", arg, Err("Database"))
            ELSE \E rows \in OrderedDescLimit({r \in store : r.sym = symbol}, limit) :
                   call' = Call("get_recent_ticks_for_backtest", arg,
                                [Ok EXCEPT !.ticks = Reverse(rows)])
         /\ UNCHANGED <<pipelineVars, repoVars, feed, accepted, memory_config,
                     backtestVars, startup, pushes>>

\* A repository over an empty table, its cache holding up to MaxRing ticks
\* of a symbol.
InitQuery ==
    /\ InitService
    /\ memory_config = [max_ticks_per_symbol |-> MaxRing]
    /\ NoBacktest
    /\ startup = NoStartup
    /\ pushes = <<>>
    /\ cfg.max_retry_attempts = MaxRetryAttempts
    /\ runner = "none"
    /\ runnerElapsed = 0

NextQuery ==
    \/ insert_tick
    \/ get_ticks
    \/ get_recent_ticks_for_backtest

SpecQuery == InitQuery /\ [][NextQuery]_vars

\* The timestamps of a sequence of ticks never increase.
IsDescending(ticks) ==
    \A i, j \in 1..Len(ticks) : i < j => ticks[i].timestamp >= ticks[j].timestamp

\* The timestamps of a sequence of ticks never decrease.
IsAscending(ticks) ==
    \A i, j \in 1..Len(ticks) : i < j => ticks[i].timestamp <= ticks[j].timestamp

\* C21, as claimed: a get_ticks that succeeds returns at most
\* min(limit, MAX_QUERY_LIMIT) ticks, DEFAULT_QUERY_LIMIT when no limit is
\* given, ordered by timestamp descending, from the cache or from the store.
C21_GetTicksBoundedDescending ==
    [][ (call'.op = "get_ticks" /\ call'.res.ok /\ call' # call)
        => /\ Len(call'.res.ticks) <= QueryLimit(call'.arg)
           /\ IsDescending(call'.res.ticks)
      ]_vars

MoneyScale == 1000 * 8

Money(x) == x * MoneyScale

\* BacktestConfig::new: the commission rate 0.001, as a fraction.
commission_rate == [num |-> 1, den |-> 1000]

\* A variant of Commission: no commission is charged.
CommissionWaived(quantity, price) == 0

\* quantity * price * commission_rate
Commission(quantity, price) == (quantity * price * commission_rate.num) \div commission_rate.den

\* Portfolio::new(initial_capital).with_commission_rate(commission_rate)
NewPortfolio(initial_capital) ==
    [initial_capital |-> initial_capital,
     cash            |-> initial_capital,
     positions       |-> <<>>,
     last_price      |-> <<>>,
     trades          |-> <<>>,
     equity_curve    |-> <<>>]

\* The positions map with the entry of a symbol set, and with it removed.
WithPosition(positions, symbol, position) ==
    [s \in DOMAIN positions \cup {symbol} |->
        IF s = symbol THEN position ELSE positions[s]]

WithoutPosition(positions, symbol) ==
    [s \in DOMAIN positions \ {symbol} |-> positions[s]]

RECURSIVE SumOver(_, _)
SumOver(f, S) ==
    IF S = {} THEN 0
    ELSE LET x == CHOOSE y \in S : TRUE IN f[x] + SumOver(f, S \ {x})

\* Portfolio::total_value: cash + sum of quantity * last_price, a position
\* without an observed price counted at its average entry price.
total_value(pf) ==
    LET worth == [s \in DOMAIN pf.positions |->
                    pf.positions[s].quantity *
                      (IF s \in DOMAIN pf.last_price THEN pf.last_price[s]
                       ELSE pf.positions[s].average_entry_price)]
    IN pf.cash + SumOver(worth, DOMAIN pf.positions)

\* Portfolio::update_price: records last_price[symbol] and appends an equity
\* snapshot.
update_price(pf, symbol, price) ==
    LET seen == [pf EXCEPT !.last_price =
                    [s \in DOMAIN pf.last_price \cup {symbol} |->
                        IF s = symbol THEN price ELSE pf.last_price[s]]]
    IN [seen EXCEPT !.equity_curve = Append(pf.equity_curve, total_value(seen))]

\* An executed trade.
Trade(symbol, side, quantity, price, commission, realized_pnl) ==
    [symbol |-> symbol, side |-> side, quantity |-> quantity, price |-> price,
     commission |-> commission, realized_pnl |-> realized_pnl]

\* The outcome of an order: the portfolio after it and whether it was
\* executed.
Executed(pf) == [ok |-> TRUE, portfolio |-> pf]
Rejected(pf) == [ok |-> FALSE, portfolio |-> pf]

\* The portfolio after a buy: the cost leaves the cash, the position takes
\* the weighted average entry price, the trade is logged without realized
\* PnL.
Bought(pf, symbol, quantity, price) ==
    LET commission == Commission(quantity, price)
        old == IF symbol \in DOMAIN pf.positions THEN pf.positions[symbol]
               ELSE [quantity |-> 0, average_entry_price |-> 0]
        new_avg == (old.average_entry_price * old.quantity + price * quantity)
                     \div (old.quantity + quantity)
    IN [pf EXCEPT
          !.cash = @ - (quantity * price + commission),
          !.positions = WithPosition(@, symbol,
                           [quantity |-> old.quantity + quantity,
                            average_entry_price |-> new_avg]),
          !.trades = Append(@, Trade(symbol, "Buy", quantity, price,
                                     commission, <<>>))]

\* A variant of execute_buy that does not look at the cash.
execute_buy_on_credit(pf, symbol, quantity, price) ==
    IF quantity <= 0 THEN Rejected(pf)
    ELSE Executed(Bought(pf, symbol, quantity, price))

\* Portfolio::execute_buy: cost = quantity * price * (1 + commission_rate);
\* fails if cost > cash or quantity <= 0.
execute_buy(pf, symbol, quantity, price) ==
    LET cost == quantity * price + Commission(quantity, price)
    IN IF cost > pf.cash \/ quantity <= 0 THEN Rejected(pf)
       ELSE Executed(Bought(pf, symbol, quantity, price))

\* A variant of the realized PnL that leaves out the commission paid on
\* entry.
realized_pnl_less_exit_commission(average_entry_price, quantity, price) ==
    (price - average_entry_price) * quantity - Commission(quantity, price)

\* realized_pnl = (price - average_entry_price) * quantity minus the
\* commissions of the trade, the one paid on entry and the one paid on exit.
realized_pnl(average_entry_price, quantity, price) ==
    (price - average_entry_price) * quantity
      - Commission(quantity, average_entry_price) - Commission(quantity, price)

\* Portfolio::execute_sell: fails if there is no position or
\* position.quantity < quantity; proceeds = quantity * price *
\* (1 - commission_rate); the position is reduced, and removed when zero.
execute_sell(pf, symbol, quantity, price) ==
    IF symbol \notin DOMAIN pf.positions THEN Rejected(pf)
    ELSE LET position == pf.positions[symbol]
             commission == Commission(quantity, price)
             left == position.quantity - quantity
         IN IF position.quantity < quantity THEN Rejected(pf)
            ELSE Executed([pf EXCEPT
                   !.cash = @ + (quantity * price - commission),
                   !.positions = IF left = 0 THEN WithoutPosition(@, symbol)
                                 ELSE WithPosition(@, symbol,
                                        [position EXCEPT !.quantity = left]),
                   !.trades = Append(@, Trade(symbol, "Sell", quantity, price,
                                 commission,
                                 <<realized_pnl(position.average_entry_price,
                                                quantity, price)>>))])

\* Portfolio::total_commission
total_commission(pf) ==
    SumOver([i \in 1..Len(pf.trades) |-> pf.trades[i].commission], 1..Len(pf.trades))

\* --------------------------------------------------------- backtest: engine

\* Bounds: the ticks of a run's data; the capitals, prices and signal
\* quantities are the ones of the commission scenario and around them.
MaxData == 3

InitialCapitals == {10000, 20000}

BacktestPrints == {<<"BTCUSDT", 5000>>, <<"BTCUSDT", 5100>>, <<"ETHUSDT", 5000>>}

SignalQuantities == {-1, 0, 1, 2}

\* data: Vec<TickData>, one tick per print, at 1-second intervals.
BacktestData(prints) ==
    [i \in 1..Len(prints) |->
        TickData(i, prints[i][1], Money(prints[i][2]), 1, "bt")]

\* Signal::Buy { symbol, quantity }, Signal::Sell { symbol, quantity }
Signal(kind, symbol, quantity) == [kind |-> kind, symbol |-> symbol, quantity |-> quantity]

\* What a strategy may answer to a tick of a symbol.
Signals(symbol) ==
    {Hold} \cup {Signal(kind, symbol, quantity) :
                   kind \in {"Buy", "Sell"}, quantity \in SignalQuantities}

\* A strategy of which only the trait is known: any signal at any tick.
AnyStrategy ==
    [kind |-> "any", symbol |-> "", short_period |-> 0, long_period |-> 0,
     short_ma |-> <<>>, long_ma |-> <<>>, position_size |-> 0]

serviceVars == <<pipelineVars, repoVars, call, feed, accepted, memory_config,
                 startup, pushes>>

\* for tick in data: the tick of the current iteration
CurrentTick == engine.data[engine.processed + 1]

\* A variant of SignalPrice: the price of the tick before.
PreviousTickPrice(data, processed) == data[Max(processed, 1)].price

\* The price a signal is executed at: tick.price
SignalPrice(data, processed) == data[processed + 1].price

\* The state after BacktestEngine::new(strategy, config) and the call of
\* run(data), before the first iteration.
InitEngine(prints, initial_capital) ==
    /\ engine = [pc |-> "update_price", data |-> BacktestData(prints),
                 processed |-> 0, signal |-> Hold, failed |-> 0, report |-> <<>>]
    /\ portfolio = NewPortfolio(Money(initial_capital))

InitBacktest ==
    /\ InitService
    /\ memory_config = [max_ticks_per_symbol |-> max_ticks_per_symbol]
    /\ cfg.max_retry_attempts = MaxRetryAttempts
    /\ runner = "none"
    /\ runnerElapsed = 0
    /\ \E prints \in SeqsUpTo(BacktestPrints, MaxData),
          initial_capital \in InitialCapitals :
         InitEngine(prints, initial_capital)
    /\ strategy = AnyStrategy
    /\ startup = NoStartup
    /\ pushes = <<>>

\* run: self.portfolio.update_price(&tick.symbol, tick.price)
RunUpdatePrice ==
    /\ engine.pc = "update_price"
    /\ engine.processed < Len(engine.data)
    /\ portfolio' = update_price(portfolio, CurrentTick.sym, CurrentTick.price)
    /\ engine' = [engine EXCEPT !.pc = "on_tick"]
    /\ UNCHANGED <<serviceVars, strategy>>

\* run: let signal = self.strategy.on_tick(&tick), for a strategy of which
\* only the trait is known.
StrategyOnTick ==
    /\ engine.pc = "on_tick"
    /\ strategy.kind = "any"
    /\ \E signal \in Signals(CurrentTick.sym) :
         engine' = [engine EXCEPT !.pc = "execute", !.signal = signal]
    /\ UNCHANGED <<serviceVars, portfolio, strategy>>

\* run: match signal: the order is executed at the tick's price and a
\* failure is only printed.
ExecuteSignal(pf, signal, price) ==
    IF signal.kind = "Buy" THEN execute_buy(pf, signal.symbol, signal.quantity, price)
    ELSE IF signal.kind = "Sell"
    THEN execute_sell(pf, signal.symbol, signal.quantity, price)
    ELSE Executed(pf)

\* failed counts the failures printed.
RunExecute ==
    /\ engine.pc = "execute"
    /\ LET result == ExecuteSignal(portfolio, engine.signal,
                                   SignalPrice(engine.data, engine.processed))
       IN /\ portfolio' = result.portfolio
          /\ engine' = [engine EXCEPT !.pc = "update_price", !.processed = @ + 1,
                                      !.signal = Hold,
                                      !.failed = IF result.ok THEN @ ELSE @ + 1]
    /\ UNCHANGED <<serviceVars, strategy>>

\* Portfolio::total_pnl: total_value() - initial_capital
total_pnl(pf) == total_value(pf) - pf.initial_capital

\* run, after the loop: the BacktestResult
BacktestResult(pf) ==
    [initial_capital |-> pf.initial_capital,
     final_value |-> total_value(pf),
     total_pnl |-> total_pnl(pf),
     total_trades |-> Len(pf.trades),
     total_commission |-> total_commission(pf),
     equity_curve |-> pf.equity_curve]

RunReport ==
    /\ engine.pc = "update_price"
    /\ engine.processed = Len(engine.data)
    /\ engine' = [engine EXCEPT !.pc = "done", !.report = <<BacktestResult(portfolio)>>]
    /\ UNCHANGED <<serviceVars, portfolio, strategy>>

NextBacktest ==
    \/ RunUpdatePrice
    \/ StrategyOnTick
    \/ RunExecute
    \/ RunReport

SpecBacktest == InitBacktest /\ [][NextBacktest]_vars

\* C23: the ticks are taken in input order; when the strategy is asked about
\* a tick and when its signal is executed, the portfolio's last price of
\* the tick's symbol is the tick's price and the equity curve has one
\* snapshot for each tick so far; a trade is logged at the tick's price;
\* the report's equity curve has one snapshot per input tick.
C23_PriceBeforeSignal ==
    [][ /\ engine'.processed \in {engine.processed, engine.processed + 1}
        /\ (engine.pc \in {"on_tick", "execute"} /\ engine' # engine)
           => /\ CurrentTick.sym \in DOMAIN portfolio.last_price
              /\ portfolio.last_price[CurrentTick.sym] = CurrentTick.price
              /\ Len(portfolio.equity_curve) = engine.processed + 1
        /\ (engine.pc = "on_tick" /\ engine' # engine)
           => engine'.pc = "execute" /\ portfolio' = portfolio
        /\ Len(portfolio'.trades) > Len(portfolio.trades)
           => /\ engine.pc = "execute"
              /\ portfolio'.trades[Len(portfolio'.trades)].price = CurrentTick.price
        /\ (engine'.pc = "done" /\ engine.pc # "done")
           => Len(engine'.report[1].equity_curve) = Len(engine.data)
      ]_vars

\* C23's case: a run over MaxData ticks of both symbols has ended with a
\* trade executed at the last tick, whose price differs from the first's.
C23_Witness ==
    /\ engine.pc = "done"
    /\ Len(engine.data) = MaxData
    /\ engine.data[1].price # engine.data[MaxData].price
    /\ portfolio.trades # <<>>
    /\ portfolio.trades[Len(portfolio.trades)].price = engine.data[MaxData].price
    /\ Len(engine.report[1].equity_curve) = MaxData

\* The loop of run is synchronous: it takes its next step.
SpecBacktestFair == SpecBacktest /\ WF_vars(NextBacktest)

\* The orders the portfolio rejects: a buy of a non-positive quantity or
\* costing more than the cash, a sell without a position or of more than
\* the position.
IsRejectedOrder(pf, signal, price) ==
    \/ /\ signal.kind = "Buy"
       /\ \/ signal.quantity <= 0
          \/ signal.quantity * price + Commission(signal.quantity, price) > pf.cash
    \/ /\ signal.kind = "Sell"
       /\ \/ signal.symbol \notin DOMAIN pf.positions
          \/ signal.quantity > pf.positions[signal.symbol].quantity

\* C24: executing a signal the portfolio rejects leaves cash, positions and
\* trade log as they were and the run goes on to the next tick; every run,
\* the one over no tick included, ends with its report.
C24_RejectedSignalSwallowed ==
    /\ [][ (engine.pc = "execute" /\ engine' # engine
            /\ IsRejectedOrder(portfolio, engine.signal, CurrentTick.price))
           => /\ portfolio'.cash = portfolio.cash
              /\ portfolio'.positions = portfolio.positions
              /\ portfolio'.trades = portfolio.trades
              /\ engine'.pc = "update_price"
              /\ engine'.processed = engine.processed + 1
              /\ engine'.failed = engine.failed + 1
         ]_vars
    /\ <>(engine.pc = "done" /\ engine.report # <<>>)

\* C24's case: a run in which an order was rejected went on to execute a
\* trade at a later tick and ended with its report.
C24_Witness ==
    /\ engine.pc = "done"
    /\ engine.report # <<>>
    /\ engine.failed > 0
    /\ portfolio.trades # <<>>
    /\ engine.failed + Len(portfolio.trades) = Len(engine.data)
    /\ portfolio.trades[1].price = engine.data[Len(engine.data)].price
    /\ engine.data[1].price # engine.data[Len(engine.data)].price

\* C25, as claimed: whatever orders were executed or rejected, the cash is
\* not negative, no position has a negative quantity, and no position of
\* quantity zero is left in the map.
C25_NonNegativeCashAndPositions ==
    /\ portfolio.cash >= 0
    /\ \A s \in DOMAIN portfolio.positions : portfolio.positions[s].quantity > 0

\* The fixed-point precision of the conservation identities, in units of
\* 1 / MoneyScale: the average entry price and the commission on it are
\* rounded at each buy.
Precision == 16

Within(x, y, epsilon) == x - y <= epsilon /\ y - x <= epsilon

\* The sum over the open positions of quantity * average_entry_price, and of
\* the commission at the rate of the portfolio on that amount.
EntryCost(pf) ==
    SumOver([s \in DOMAIN pf.positions |->
               pf.positions[s].quantity * pf.positions[s].average_entry_price],
            DOMAIN pf.positions)

EntryCommission(pf) ==
    SumOver([s \in DOMAIN pf.positions |->
               Commission(pf.positions[s].quantity,
                          pf.positions[s].average_entry_price)],
            DOMAIN pf.positions)

\* The sum of the realized PnL of the executed sells.
realized_pnl_sum(pf) ==
    LET sells == {i \in 1..Len(pf.trades) : pf.trades[i].realized_pnl # <<>>}
    IN SumOver([i \in sells |-> pf.trades[i].realized_pnl[1]], sells)

\* C26, as claimed: at every point of a backtest, cash + the sum over the
\* symbols of quantity * average_entry_price equals initial_capital -
\* total_commission - the sum of the realized PnL of the executed sells, to
\* fixed-point precision.
C26_ConservationAsClaimed ==
    Within(portfolio.cash + EntryCost(portfolio),
           portfolio.initial_capital - total_commission(portfolio)
             - realized_pnl_sum(portfolio),
           Precision)

\* C26, amended: at every point of a backtest, cash + the sum over the
\* symbols of quantity * average_entry_price * (1 + commission_rate) equals
\* initial_capital + the sum of the realized PnL of the executed sells, to
\* fixed-point precision.
C26_Conservation ==
    Within(portfolio.cash + EntryCost(portfolio) + EntryCommission(portfolio),
           portfolio.initial_capital + realized_pnl_sum(portfolio),
           Precision)

\* C26's case: part of a position built at two prices was sold at a
\* realized PnL other than zero, and the rest is still open.
C26_Witness ==
    /\ Len(portfolio.trades) = 3
    /\ portfolio.trades[1].side = "Buy"
    /\ portfolio.trades[2].side = "Buy"
    /\ portfolio.trades[1].price # portfolio.trades[2].price
    /\ portfolio.trades[3].side = "Sell"
    /\ portfolio.trades[3].quantity > 0
    /\ portfolio.trades[3].realized_pnl[1] # 0
    /\ portfolio.trades[3].symbol \in DOMAIN portfolio.positions

\* C27: with commission rate c, an executed buy of q at p lowers the cash by
\* q*p*(1+c), an executed sell of q at p raises it by q*p*(1-c), and the
\* realized PnL logged on the sell is (p - average_entry_price)*q minus the
\* commission paid on entry and the one paid on exit; from a capital of
\* 10,000 with c = 0.001, Buy 1 @ 5000 leaves a cash of 4995, and Sell 1 @
\* 5100 after it a cash of 10089.9 and a realized PnL of 89.9.
C27_CommissionArithmetic ==
    [][ Len(portfolio'.trades) = Len(portfolio.trades) + 1
        => LET t == portfolio'.trades[Len(portfolio'.trades)]
               c == commission_rate
               fee(amount) == (amount * c.num) \div c.den
               first == portfolio.trades = <<>>
                        /\ portfolio.initial_capital = Money(10000)
                        /\ t.side = "Buy" /\ t.quantity = 1
                        /\ t.price = Money(5000)
               second == Len(portfolio.trades) = 1
                         /\ portfolio.initial_capital = Money(10000)
                         /\ portfolio.trades[1].side = "Buy"
                         /\ portfolio.trades[1].quantity = 1
                         /\ portfolio.trades[1].price = Money(5000)
                         /\ t.symbol = portfolio.trades[1].symbol
                         /\ t.side = "Sell" /\ t.quantity = 1
                         /\ t.price = Money(5100)
           IN /\ t.side = "Buy"
                 => portfolio.cash - portfolio'.cash
                      = t.quantity * t.price + fee(t.quantity * t.price)
              /\ t.side = "Sell"
                 => /\ portfolio'.cash - portfolio.cash
                         = t.quantity * t.price - fee(t.quantity * t.price)
                    /\ LET avg == portfolio.positions[t.symbol].average_entry_price
                       IN t.realized_pnl
                            = <<(t.price - avg) * t.quantity
                                  - fee(t.quantity * avg)
                                  - fee(t.quantity * t.price)>>
              /\ first => portfolio'.cash = Money(4995)
              /\ second => /\ portfolio.cash = Money(4995)
                           /\ portfolio'.cash = Money(100899) \div 10
                           /\ t.realized_pnl = <<Money(899) \div 10>>
      ]_vars

\* C27's case: from a capital of 10,000, Buy 1 @ 5000 and then Sell 1 @
\* 5100 of the same symbol were executed.
C27_Witness ==
    /\ portfolio.initial_capital = Money(10000)
    /\ Len(portfolio.trades) = 2
    /\ portfolio.trades[1].side = "Buy"
    /\ portfolio.trades[1].quantity = 1
    /\ portfolio.trades[1].price = Money(5000)
    /\ portfolio.trades[2].side = "Sell"
    /\ portfolio.trades[2].symbol = portfolio.trades[1].symbol
    /\ portfolio.trades[2].quantity = 1
    /\ portfolio.trades[2].price = Money(5100)
    /\ portfolio.positions = <<>>

\* ---------------------------------------------- backtest: SMA crossover

\* Bounds: the ticks of a run's data, the prices they carry and the periods
\* of the two windows; the crossover scenario (periods 2 and 3, quantity 1,
\* prices 10, 12, 11, 15, 14) is among the runs.
MaxSMAData == 5

SMAPrices == {10, 11, 12, 14, 15}

SMAPeriods == {<<1, 2>>, <<2, 3>>, <<2, 2>>}

\* SMAStrategy::new(symbol, short_period, long_period, position_size)
SMAStrategy(symbol, short_period, long_period, position_size) ==
    [kind |-> "sma", symbol |-> symbol,
     short_period |-> short_period, long_period |-> long_period,
     short_ma |-> <<>>, long_ma |-> <<>>, position_size |-> position_size]

\* A variant of PushWindow: the front is never popped.
PushWindowUnbounded(window, price, period) == Append(window, price)

\* VecDeque: push_back(price), then pop_front() if the length is above the
\* period.
PushWindow(window, price, period) ==
    LET pushed == Append(window, price)
    IN IF Len(pushed) > period THEN Tail(pushed) ELSE pushed

\* iter().sum()
RECURSIVE SumSeq(_)
SumSeq(window) ==
    IF window = <<>> THEN 0 ELSE Head(window) + SumSeq(Tail(window))

\* sum / period, kept as a fraction
Average(window, period) == [num |-> SumSeq(window), den |-> period]

\* A variant of GreaterThan: >= in place of >.
GreaterOrEqual(a, b) == a.num * b.den >= b.num * a.den

\* short_ma > long_ma
GreaterThan(a, b) == a.num * b.den > b.num * a.den

\* SMAStrategy::calculate_ma: both windows take the price; the averages are
\* computed only when both windows hold their period.
calculate_ma(st, price) ==
    LET short == PushWindow(st.short_ma, price, st.short_period)
        long == PushWindow(st.long_ma, price, st.long_period)
        next == [st EXCEPT !.short_ma = short, !.long_ma = long]
    IN [strategy |-> next,
        ma |-> IF Len(short) = st.short_period /\ Len(long) = st.long_period
               THEN <<[short_ma |-> Average(short, st.short_period),
                       long_ma |-> Average(long, st.long_period)]>>
               ELSE <<>>]

\* SMAStrategy::on_data: the orders of a data point, given the portfolio.
on_data(st, price, pf) ==
    LET calculated == calculate_ma(st, price)
        orders ==
          IF calculated.ma = <<>> THEN <<>>
          ELSE IF GreaterThan(calculated.ma[1].short_ma, calculated.ma[1].long_ma)
          THEN IF st.symbol \notin DOMAIN pf.positions
               THEN <<Signal("Buy", st.symbol, st.position_size)>>
               ELSE <<>>
          ELSE IF st.symbol \in DOMAIN pf.positions
               THEN <<Signal("Sell", st.symbol, pf.positions[st.symbol].quantity)>>
               ELSE <<>>
    IN [strategy |-> calculated.strategy, orders |-> orders]

\* A run of the SMA strategy over the prices of one symbol.
InitSMA ==
    /\ InitService
    /\ memory_config = [max_ticks_per_symbol |-> max_ticks_per_symbol]
    /\ cfg.max_retry_attempts = MaxRetryAttempts
    /\ runner = "none"
    /\ runnerElapsed = 0
    /\ \E prices \in SeqsUpTo(SMAPrices, MaxSMAData) :
         InitEngine([i \in 1..Len(prices) |-> <<"BTCUSDT", prices[i]>>], 10000)
    /\ \E periods \in SMAPeriods :
         strategy = SMAStrategy("BTCUSDT", periods[1], periods[2], 1)
    /\ startup = NoStartup
    /\ pushes = <<>>

\* The strategy's answer to the tick of the iteration: its order, or Hold
\* when it gives none.
SMAOnData ==
    /\ engine.pc = "on_tick"
    /\ strategy.kind = "sma"
    /\ LET answer == on_data(strategy, CurrentTick.price, portfolio)
       IN /\ strategy' = answer.strategy
          /\ engine' = [engine EXCEPT
                          !.pc = "execute",
                          !.signal = IF answer.orders = <<>> THEN Hold
                                     ELSE answer.orders[1]]
    /\ UNCHANGED <<serviceVars, portfolio>>

NextSMA ==
    \/ RunUpdatePrice
    \/ SMAOnData
    \/ RunExecute
    \/ RunReport

SpecSMA == InitSMA /\ [][NextSMA]_vars

\* The sum of the last period prices of the data up to tick i.
SumOfLast(data, i, period) ==
    SumOver([j \in (i - period + 1)..i |-> data[j].price], (i - period + 1)..i)

\* C28: the windows never hold more than short_period and long_period
\* prices; the strategy emits nothing until both are full; from then on, at
\* each tick, it emits Buy of the fixed quantity if short SMA > long SMA and
\* no position is open in the symbol, Sell of the full position if short
\* SMA <= long SMA and a position exists, and Hold otherwise.
C28_SMASignalRule ==
    [][ /\ Len(strategy'.short_ma) <= strategy.short_period
        /\ Len(strategy'.long_ma) <= strategy.long_period
        /\ (engine.pc = "on_tick" /\ engine' # engine)
           => LET i == engine.processed + 1
                  sp == strategy.short_period
                  lp == strategy.long_period
                  full == i >= sp /\ i >= lp
                  above == SumOfLast(engine.data, i, sp) * lp
                             > SumOfLast(engine.data, i, lp) * sp
                  open == strategy.symbol \in DOMAIN portfolio.positions
              IN engine'.signal =
                   IF ~full THEN Hold
                   ELSE IF above /\ ~open
                   THEN Signal("Buy", strategy.symbol, strategy.position_size)
                   ELSE IF ~above /\ open
                   THEN Signal("Sell", strategy.symbol,
                               portfolio.positions[strategy.symbol].quantity)
                   ELSE Hold
      ]_vars

\* C28's case: a run of the strategy with windows of 2 and 3 prices ended
\* with a Buy and a Sell executed and with a tick of full windows at which
\* it held.
C28_Witness ==
    /\ strategy.kind = "sma"
    /\ strategy.short_period = 2
    /\ strategy.long_period = 3
    /\ engine.pc = "done"
    /\ Len(engine.data) = MaxSMAData
    /\ Len(portfolio.trades) = 2
    /\ portfolio.trades[1].side = "Buy"
    /\ portfolio.trades[2].side = "Sell"
    /\ portfolio.trades[2].quantity = strategy.position_size
    /\ Len(strategy.short_ma) = 2
    /\ Len(strategy.long_ma) = 3

\* The crossover scenario: periods 2 and 3, quantity 1, prices 10, 12, 11,
\* 15, 14 at 1-second intervals.
CrossoverScenario ==
    /\ strategy.kind = "sma"
    /\ strategy.short_period = 2
    /\ strategy.long_period = 3
    /\ strategy.position_size = 1
    /\ [i \in 1..Len(engine.data) |-> engine.data[i].price]
         = <<Money(10), Money(12), Money(11), Money(15), Money(14)>>
    /\ \A i \in 1..Len(engine.data) : engine.data[i].timestamp = i

\* short SMA <= long SMA at tick i of the run's data
ShortNotAboveLong(i) ==
    SumOfLast(engine.data, i, strategy.short_period) * strategy.long_period
      <= SumOfLast(engine.data, i, strategy.long_period) * strategy.short_period

\* C29, as claimed: in the crossover scenario no signal is emitted before
\* tick 3, a Buy is emitted at tick 4, a Sell is emitted at tick 5 if and
\* only if short SMA <= long SMA at that tick, and the trade log of the run
\* has length 1 or 2.
C29_CrossoverAsClaimed ==
    [][ CrossoverScenario
        => /\ (engine.pc = "on_tick" /\ engine' # engine)
              => LET i == engine.processed + 1
                 IN /\ i < 3 => engine'.signal = Hold
                    /\ i = 4 => engine'.signal.kind = "Buy"
                    /\ i = 5 => (engine'.signal.kind = "Sell" <=> ShortNotAboveLong(5))
           /\ (engine'.pc = "done" /\ engine.pc # "done")
              => Len(portfolio'.trades) \in {1, 2}
      ]_vars

\* C29, amended: in the crossover scenario no signal is emitted before tick
\* 3, a Buy of 1 is emitted at tick 3, no signal is emitted at tick 4, a
\* Sell is emitted at tick 5 if and only if short SMA <= long SMA at that
\* tick, which it is not, so that none is emitted, and the trade log of the
\* run has length 1.
C29_Crossover ==
    [][ CrossoverScenario
        => /\ (engine.pc = "on_tick" /\ engine' # engine)
              => LET i == engine.processed + 1
                 IN /\ i < 3 => engine'.signal = Hold
                    /\ i = 3 => engine'.signal = Signal("Buy", strategy.symbol, 1)
                    /\ i = 4 => engine'.signal = Hold
                    /\ i = 5 => /\ engine'.signal.kind = "Sell" <=> ShortNotAboveLong(5)
                                /\ engine'.signal = Hold
           /\ (engine'.pc = "done" /\ engine.pc # "done")
              => /\ Len(portfolio'.trades) = 1
                 /\ portfolio'.trades[1].side = "Buy"
                 /\ portfolio'.trades[1].price = Money(11)
      ]_vars

\* C29's case: the run of the crossover scenario has ended.
C29_Witness ==
    /\ CrossoverScenario
    /\ engine.pc = "done"
    /\ engine.processed = 5
    /\ portfolio.trades # <<>>
    /\ strategy.short_ma = <<Money(15), Money(14)>>
    /\ strategy.long_ma = <<Money(11), Money(15), Money(14)>>

\* ------------------------------------------- startup: cache construction

\* The default of REDIS_URL, which is also the URL of the minimal cache, and
\* another host.
LocalRedis == "redis://127.0.0.1:6379"

OtherRedis == "redis://cache:6379"

RedisUrls == {LocalRedis, OtherRedis}

\* settings.cache of the live and backtest modes: (max_ticks_per_symbol,
\* ttl_seconds) of the memory tier and of the remote tier.
CacheSettings ==
    {[memory |-> <<100, 300>>, redis |-> <<1000, 600>>],
     [memory |-> <<1000, 3600>>, redis |-> <<10000, 3600>>]}

StartupModes == {"gui", "live", "backtest"}

\* The arguments of TieredCache::new: memory_config and redis_config.
CacheConfig(memory, url, max_ticks, ttl_seconds) ==
    [memory |-> memory, redis |-> <<url, max_ticks, ttl_seconds>>]

\* create_gui_cache: memory_config (50, 300), redis_config (url, 100, 600)
GuiCacheConfig(url) == CacheConfig(<<50, 300>>, url, 100, 600)

\* create_minimal_cache: memory_config (10, 60), redis_config
\* ("redis://127.0.0.1:6379", 10, 60)
MinimalCacheConfig == CacheConfig(<<10, 60>>, LocalRedis, 10, 60)

\* create_cache: both tiers as the settings have them
LiveCacheConfig(url, settings) ==
    CacheConfig(settings.memory, url, settings.redis[1], settings.redis[2])

\* create_backtest_cache: memory_config (10, 60), redis_config (url, 10, 60)
BacktestCacheConfig(url) == CacheConfig(<<10, 60>>, url, 10, 60)

\* TieredCache::new(memory_config, redis_config): an error when the
\* constructor connects to the remote tier and the remote tier cannot be
\* reached; a constructor that only keeps the URL succeeds.
TieredCacheNew(st, config) ==
    ~st.connects \/ config.redis[1] \in st.reachable

\* cache.get_symbols() in test_cache_connection: succeeds when the remote
\* tier can be reached, and may fail or answer from the memory tier when it
\* cannot.
GetSymbolsOutcomes(st, config) ==
    IF config.redis[1] \in st.reachable THEN {TRUE} ELSE BOOLEAN

\* The application starts: its mode, its settings, which remote tiers can be
\* reached, and whether TieredCache::new connects.
InitStartup ==
    /\ InitService
    /\ memory_config = [max_ticks_per_symbol |-> 0]
    /\ NoBacktest
    /\ cfg.max_retry_attempts = MaxRetryAttempts
    /\ runner = "none"
    /\ runnerElapsed = 0
    /\ \E mode \in StartupModes, url \in RedisUrls, settings \in CacheSettings,
          reachable \in SUBSET RedisUrls, connects \in BOOLEAN :
         startup = [pc |-> "create", mode |-> mode, redis_url |-> url,
                    settings |-> settings, reachable |-> reachable,
                    connects |-> connects, cache |-> <<>>]
    /\ pushes = <<>>

startupRest == <<pipelineVars, repoVars, call, feed, accepted, backtestVars,
                 pushes>>

\* The cache is handed to TickDataRepository::new and the application goes
\* on.
Started(config) ==
    /\ startup' = [startup EXCEPT !.pc = "started", !.cache = <<config>>]
    /\ memory_config' = [max_ticks_per_symbol |-> config.memory[1]]

\* The error is returned to the caller, up to main or AppState::new.
Failed ==
    /\ startup' = [startup EXCEPT !.pc = "failed", !.cache = <<>>]
    /\ UNCHANGED memory_config

\* create_gui_cache: on an error of TieredCache::new a warning is logged and
\* create_minimal_cache is called.
CreateGuiCache ==
    /\ startup.pc = "create"
    /\ startup.mode = "gui"
    /\ LET config == GuiCacheConfig(startup.redis_url)
       IN IF TieredCacheNew(startup, config) THEN Started(config)
          ELSE /\ startup' = [startup EXCEPT !.pc = "minimal"]
               /\ UNCHANGED memory_config
    /\ UNCHANGED startupRest

\* create_minimal_cache: TieredCache::new again, its error returned.
CreateMinimalCache ==
    /\ startup.pc = "minimal"
    /\ IF TieredCacheNew(startup, MinimalCacheConfig) THEN Started(MinimalCacheConfig)
       ELSE Failed
    /\ UNCHANGED startupRest

\* create_cache, create_backtest_cache: TieredCache::new(...).await?
CreateCache ==
    /\ startup.pc = "create"
    /\ startup.mode \in {"live", "backtest"}
    /\ LET config == IF startup.mode = "live"
                     THEN LiveCacheConfig(startup.redis_url, startup.settings)
                     ELSE BacktestCacheConfig(startup.redis_url)
       IN IF TieredCacheNew(startup, config)
          THEN /\ startup' = [startup EXCEPT !.pc = "test", !.cache = <<config>>]
               /\ UNCHANGED memory_config
          ELSE Failed
    /\ UNCHANGED startupRest

\* test_cache_connection: its error is returned by create_cache and only
\* logged by create_backtest_cache.
TestCacheConnection ==
    /\ startup.pc = "test"
    /\ \E ok \in GetSymbolsOutcomes(startup, startup.cache[1]) :
         IF ok \/ startup.mode = "backtest" THEN Started(startup.cache[1])
         ELSE Failed
    /\ UNCHANGED startupRest

NextStartup ==
    \/ CreateGuiCache
    \/ CreateMinimalCache
    \/ CreateCache
    \/ TestCacheConnection

SpecStartup == InitStartup /\ [][NextStartup]_vars

\* A degraded minimal configuration: small ring, small remote limits, short
\* TTL.
IsMinimalConfig(config) ==
    /\ config.memory = MinimalCacheConfig.memory
    /\ config.redis[2] = MinimalCacheConfig.redis[2]
    /\ config.redis[3] = MinimalCacheConfig.redis[3]

\* C30, as claimed: when the remote tier of the settings cannot be reached,
\* the start does not fail: it ends with a cache of the minimal
\* configuration and the application goes on.
C30_ConstructionFallback ==
    (startup.pc \in {"started", "failed"} /\ startup.redis_url \notin startup.reachable)
    => /\ startup.pc = "started"
       /\ startup.cache # <<>>
       /\ IsMinimalConfig(startup.cache[1])

\* ------------------------------------------------------ cache: ring bound

\* The ticks pushed to the ring: distinct trades of each symbol.
RingTradeIds == {"r1", "r2", "r3", "r4"}

RingTicks == {TickData(1, sym, 1, 1, id) : sym \in Symbols, id \in RingTradeIds}

\* Pushes followed: enough to evict from a ring of MaxRing ticks twice and
\* to push to the ring of another symbol.
MaxPushes == MaxRing + 3

\* A repository over an empty table, its cache holding up to MaxRing ticks
\* of a symbol.
InitRing ==
    /\ InitService
    /\ memory_config = [max_ticks_per_symbol |-> MaxRing]
    /\ NoBacktest
    /\ startup = NoStartup
    /\ pushes = <<>>
    /\ cfg.max_retry_attempts = MaxRetryAttempts
    /\ runner = "none"
    /\ runnerElapsed = 0

\* TickDataRepository::insert_tick of a tick not inserted before: the row
\* is written and the tick pushed to the cache; pushed is the outcome of
\* cache.push_tick.
InsertDistinctTick ==
    /\ Len(pushes) < MaxPushes
    /\ \E tick \in RingTicks \ accepted, pushed \in BOOLEAN :
         /\ store' = InsertRow(store, tick)
         /\ cache' = TryPush(cache, tick, pushed)
         /\ call' = Call("insert_tick", tick, Ok)
         /\ accepted' = accepted \cup {tick}
         /\ pushes' = IF pushed THEN Append(pushes, tick) ELSE pushes
    /\ UNCHANGED <<pipelineVars, feed, memory_config, backtestVars, startup>>

NextRing == InsertDistinctTick

SpecRing == InitRing /\ [][NextRing]_vars

\* C31: after K pushes of distinct ticks of a symbol, the memory tier holds
\* exactly min(K, max_ticks_per_symbol) ticks of the symbol, they are the
\* most recently pushed ones in push order, and the head is the oldest tick
\* not yet evicted.
C31_RingBound ==
    \A sym \in Symbols :
      LET pushed == OfSymbol(pushes, sym)
          K == Len(pushed)
          N == memory_config.max_ticks_per_symbol
      IN /\ Len(cache[sym]) = Min(K, N)
         /\ \A i \in 1..Len(cache[sym]) :
              cache[sym][i] = pushed[K - Len(cache[sym]) + i]
         /\ K > 0 => Head(cache[sym]) = pushed[Max(1, K - N + 1)]

\* C31's case: two more ticks of a symbol were pushed than its ring holds,
\* and one tick of the other symbol.
C31_Witness ==
    \E sym \in Symbols, other \in Symbols :
      /\ sym # other
      /\ Len(OfSymbol(pushes, sym)) = memory_config.max_ticks_per_symbol + 2
      /\ Len(cache[sym]) = memory_config.max_ticks_per_symbol
      /\ Len(cache[other]) = 1

\* ------------------------------------------------- shutdown at every wait

\* C32, as claimed: every wait of a long-lived task is a select that also
\* waits on the shutdown signal: whenever the processing task waits in its
\* select loop or in the retry delay of a flush, the collection task in its
\* retry delay, or the venue reader in its reconnect delay or its message
\* loop, and a shutdown signal is queued in the task's receiver, the task's
\* shutdown branch can be taken.
C32_ShutdownAtEveryWait ==
    /\ (pPc \in {"select", "flush_delay"} /\ rxProc > 0) => ENABLED ProcShutdown
    /\ (cPc = "retry_delay" /\ rxColl > 0) => ENABLED CollRetryShutdown
    /\ (vPc = "reconnect_delay" /\ rxSub > 0) => ENABLED VenueReconnectShutdown
    /\ (vPc = "connected" /\ rxConn > 0) => ENABLED VenueShutdown

\* ------------------------------------------------- cache against the store

\* No tick is in flight: none held by a spawned send, in the channel, or by
\* the processing task between its receipt and a returned flush.
Quiescent ==
    /\ sends = {}
    /\ tick_channel = <<>>
    /\ cur = NoTick
    /\ batch_buffer = <<>>
    /\ pPc \in {"select", "done"}

\* C33, as claimed: once the pipeline is quiescent, every tick readable
\* from the cache of a symbol is a row of the store.
C33_CacheWithinStore ==
    Quiescent =>
      \A sym \in Symbols : \A i \in 1..Len(cache[sym]) : cache[sym][i] \in store

\* ------------------------------------------------------ reconnect counter

\* C34, as claimed: the reconnect attempt counter is reset on a
\* successfully established connection: while the reader is in the message
\* loop of a connection the counter is zero, so that the failures counted
\* against the cap are consecutive ones.
C34_CounterResetOnConnect ==
    vPc = "connected" => reconnect_attempts = 0

\* --------------------------------------------------- get_ticks: the filters

\* The tick satisfies the query: WHERE symbol = .. AND timestamp >=
\* start_time; the queries followed give no end_time and no trade_side.
SatisfiesQuery(tick, query) ==
    /\ tick.sym = query.symbol
    /\ query.start_time # <<>> => tick.timestamp >= query.start_time[1]

\* C35, as claimed: every tick returned by a get_ticks that succeeds
\* satisfies the query, its symbol being the query's and its timestamp not
\* before start_time when one is given, from the store or from the cache.
C35_ResultSatisfiesQuery ==
    [][ (call'.op = "get_ticks" /\ call'.res.ok /\ call' # call)
        => \A i \in 1..Len(call'.res.ticks) :
              SatisfiesQuery(call'.res.ticks[i], call'.arg)
      ]_vars

\* ------------------------------------------------ get_ticks: no duplicates

\* No two elements of the sequence share (symbol, trade_id, timestamp).
HasNoDuplicate(ticks) ==
    \A i, j \in 1..Len(ticks) : i < j => ConflictKey(ticks[i]) # ConflictKey(ticks[j])

\* C36, as claimed: a get_ticks that succeeds never returns the same tick
\* twice: no two elements of its result share (symbol, trade_id, timestamp),
\* whether the result comes from the store or from the cache.
C36_NoDuplicateInResult ==
    [][ (call'.op = "get_ticks" /\ call'.res.ok /\ call' # call)
        => HasNoDuplicate(call'.res.ticks)
      ]_vars

\* ------------------------------------------------- cache: timestamp order

\* No tick of the symbol accepted so far is newer than the tick.
NotBeforeAccepted(tick) ==
    \A r \in accepted : r.sym = tick.sym => r.timestamp <= tick.timestamp

\* insert_tick, called with ticks in timestamp order
InsertInOrder ==
    /\ insert_tick
    /\ call'.res.ok => NotBeforeAccepted(call'.arg)

\* The ticks of the lists passed to batch_insert when the ticks are inserted
\* in timestamp order: one trade at each timestamp.
OrderedBatchTicks == {TickData(ts, "BTCUSDT", ts, 1, "b2") : ts \in 1..MaxTimestamp}

\* batch_insert, called with a list in timestamp order that follows the
\* ticks inserted before; pushed is the outcome of the cache pushes.
BatchInsertInOrder ==
    \E ticks \in SeqsUpTo(OrderedBatchTicks, MAX_BATCH_SIZE), pushed \in BOOLEAN :
      LET r == BatchInsert(store, cache, ticks, 0, pushed)
      IN /\ IsAscending(ticks)
         /\ \A i \in 1..Len(ticks) : NotBeforeAccepted(ticks[i])
         /\ store' = r.store
         /\ cache' = r.cache
         /\ call' = Call("batch_insert", ticks, r.res)
         /\ accepted' = accepted \cup SeqToSet(ticks)
         /\ UNCHANGED <<pipelineVars, feed, memory_config,
                     backtestVars, startup, pushes>>

NextOrdered ==
    \/ InsertInOrder
    \/ BatchInsertInOrder
    \/ get_ticks

\* A repository with a ring of MaxRing ticks, its ticks inserted in
\* timestamp order.
SpecOrdered == InitQuery /\ [][NextOrdered]_vars

\* C37, as claimed: with the ticks of a symbol inserted in timestamp order,
\* the cache's sequence of the symbol is in non-decreasing timestamp order
\* after any interleaving of insert_tick, batch_insert and get_ticks, so
\* that its last entry is the newest tick it holds.
C37_CacheAscending ==
    \A sym \in Symbols : IsAscending(cache[sym])

\* ------------------------------------------------- statistics: accounting

\* The ticks the processing task holds in its batch buffer, buffered or being
\* flushed; the buffer is a local of the task and is dropped when the task
\* ends.
TicksBuffered == IF pPc = "done" THEN 0 ELSE Len(batch_buffer)

\* C38, as claimed: at any time total_ticks_processed equals the ticks of
\* the batches flushed successfully plus the ticks of the batches discarded
\* plus the ticks buffered or being flushed, total_batches_flushed +
\* total_failed_batches equals the number of flushes that completed, and
\* total_retry_attempts equals the number of batch_insert calls that failed.
C38_StatsAccount ==
    /\ stats.total_ticks_processed =
           flushLog.flushed_ticks + flushLog.discarded_ticks + TicksBuffered
    /\ stats.total_batches_flushed + stats.total_failed_batches = flushLog.completed
    /\ stats.total_retry_attempts = flushLog.failed_calls

\* --------------------------------------------- flush: batches and retries

\* Ticks received by the processing task in this specification: two full
\* batches.
MaxFlushTicks == 2 * MaxBatchLen

\* The service over an empty table, with a batch size above the chunk size of
\* batch_insert, so that a batch is written in more than one chunk.
InitFlush ==
    /\ cfg \in [max_batch_size : {MaxBatchLen}, max_retry_attempts : {MaxRetryAttempts}]
    /\ stops = 0
    /\ rxColl = 0 /\ rxSub = 0 /\ rxConn = 0 /\ rxProc = 0
    /\ cPc = "awaiting"
    /\ vPc = "connected"
    /\ reconnect_attempts = 0
    /\ emitted = 0
    /\ sends = {}
    /\ tick_channel = <<>>
    /\ pPc = "select"
    /\ cur = NoTick
    /\ batch_buffer = <<>>
    /\ attempt = 0
    /\ flushFrom = "none"
    /\ stats = BatchStatsDefault
    /\ store = {}
    /\ cache = [s \in Symbols |-> <<>>]
    /\ elapsed = 0
    /\ timerLag = 0
    /\ appended = <<>>
    /\ flushCalls = 0
    /\ flushLog = NoFlush
    /\ call = NoCall
    /\ feed = NoFeed
    /\ accepted = {}
    /\ memory_config = [max_ticks_per_symbol |-> max_ticks_per_symbol]
    /\ NoBacktest
    /\ startup = NoStartup
    /\ pushes = <<>>
    /\ runner = "none"
    /\ runnerElapsed = 0

\* The callback's spawned task sends a tick of the venue into the channel:
\* tx.send(tick).await
FlushSendTick ==
    /\ emitted < MaxFlushTicks
    /\ HasCapacity(tick_channel)
    /\ \E tick \in ValidTicks : tick_channel' = Append(tick_channel, tick)
    /\ emitted' = emitted + 1
    /\ UNCHANGED <<cfg, shutdownVars, cPc, vPc, reconnect_attempts, sends, procVars,
                   repoVars, clockVars, histVars, runnerVars, apiVars>>

\* flush_batch_with_retry, one turn of its loop: repository.batch_insert of
\* a clone of the buffer, whose chunk fail_at fails (0: none); pushed is the
\* outcome of the cache pushes.
FlushBatchInsert ==
    /\ pPc = "flush"
    /\ \E fail_at \in 0..2, pushed \in BOOLEAN :
         LET r == BatchInsert(store, cache, batch_buffer, fail_at, pushed)
         IN /\ store' = r.store
            /\ cache' = r.cache
            /\ call' = Call("batch_insert", batch_buffer, r.res)
            /\ flushCalls' = flushCalls + 1
            /\ IF r.res.ok
               THEN /\ stats' = [stats EXCEPT !.total_batches_flushed = @ + 1]
                    /\ flushLog' = [flushLog EXCEPT
                                      !.flushed_ticks = @ + Len(batch_buffer),
                                      !.completed = @ + 1]
                    /\ FlushReturns
                    /\ UNCHANGED attempt
               ELSE /\ attempt' = attempt + 1
                    /\ IF RetriesExhausted(attempt + 1, cfg)
                       THEN /\ stats' = [stats EXCEPT !.total_retry_attempts = @ + 1,
                                                      !.total_failed_batches = @ + 1]
                            /\ flushLog' = [flushLog EXCEPT
                                              !.failed_calls = @ + 1,
                                              !.discarded_ticks = @ + Len(batch_buffer),
                                              !.completed = @ + 1]
                            /\ FlushReturns
                       ELSE /\ stats' = [stats EXCEPT !.total_retry_attempts = @ + 1]
                            /\ flushLog' = [flushLog EXCEPT !.failed_calls = @ + 1]
                            /\ pPc' = "flush_delay"
                            /\ UNCHANGED <<flushFrom, batch_buffer, elapsed>>
    /\ UNCHANGED <<cfg, shutdownVars, cPc, venueVars, sends, tick_channel, cur,
                   timerLag, appended, runnerVars, feed, accepted, memory_config,
                   backtestVars, startup, pushes>>

NextFlush ==
    \/ FlushSendTick
    \/ ProcRecvTick
    \/ ProcPush
    \/ FlushBatchInsert
    \/ FlushRetryWake

SpecFlush == InitFlush /\ [][NextFlush]_vars

\* The store has at most one row of each (symbol, trade_id, timestamp).
OneRowPerKey(st) ==
    \A r1, r2 \in st : ConflictKey(r1) = ConflictKey(r2) => r1 = r2

\* C39: each tick received by the processing task belongs to exactly one
\* batch: the batches whose flush returned and the buffer are consecutive
\* pieces of the ticks received, in their order; every batch_insert call of a
\* flush is given the whole buffer, a retry the list of the call before it;
\* and whatever calls failed, after some of their chunks were written or
\* before, the store holds at most one row of each (symbol, trade_id,
\* timestamp).
C39_OneBatchOneRow ==
    /\ [](/\ Len(appended) = flushLog.flushed_ticks + flushLog.discarded_ticks
                             + Len(batch_buffer)
          /\ batch_buffer = LastN(appended, Len(batch_buffer))
          /\ OneRowPerKey(store))
    /\ [][ /\ call'.op = "batch_insert" /\ call' # call => call'.arg = batch_buffer
           /\ (pPc = "flush" /\ attempt > 0 /\ flushCalls' = flushCalls + 1)
                 => call'.arg = call.arg
           /\ (pPc \in {"flush", "flush_delay"} /\ pPc' \in {"flush", "flush_delay"})
                 => batch_buffer' = batch_buffer
         ]_vars

\* C39's case: a batch_insert of three ticks failed after its first chunk
\* was written, the retry was given the same three ticks and succeeded, and
\* the store has a row for each of their keys, two of the ticks having the
\* same key.
C39_Witness ==
    /\ call.op = "batch_insert"
    /\ call.res.ok
    /\ Len(call.arg) > MAX_BATCH_SIZE
    /\ flushCalls = 2
    /\ stats.total_retry_attempts = 1
    /\ \E i, j \in 1..Len(call.arg) :
         i < j /\ ConflictKey(call.arg[i]) = ConflictKey(call.arg[j])
    /\ {ConflictKey(r) : r \in store} = {ConflictKey(call.arg[i]) : i \in 1..Len(call.arg)}
    /\ Cardinality(store) = Cardinality({ConflictKey(r) : r \in store})

\* ------------------------------------------------- backtest: final values

\* C40, as claimed: the report of a run over a non-empty input has the
\* reported final_value as the last point of its equity curve, and its
\* total_pnl is final_value - initial_capital, whether or not a trade was
\* executed on the last tick.
C40_FinalValueOnCurve ==
    (engine.pc = "done" /\ engine.data # <<>>) =>
      LET report == engine.report[1]
      IN /\ report.equity_curve # <<>>
         /\ report.equity_curve[Len(report.equity_curve)] = report.final_value
         /\ report.total_pnl = report.final_value - report.initial_capital

====
